---- MODULE Spec2Model ----
(***************************************************************************)
(* Model of the retrieval-augmented chat application (src/app.py and the   *)
(* EmbeddingManager of src/embedding.py).                                  *)
(*                                                                         *)
(* The Flask session of a client is a record per session identifier, the   *)
(* process-global ai_manager is one record, the upload folder is a set of  *)
(* file names.  Every request handler is one action of Spec.  `last` holds *)
(* what the most recent request returned and which collaborators it        *)
(* invoked (the call counts a test double would record).                   *)
(*                                                                         *)
(* Abstractions of the libraries the code calls:                           *)
(*  - a PDF's extracted text is the sequence of pieces the text splitter   *)
(*    cuts it into;                                                        *)
(*  - SentenceTransformer.encode is a fixed function from a text to an     *)
(*    integer vector (the floating point vectors scaled by 10);            *)
(*  - faiss.IndexFlatL2 is the sequence of the vectors added; its search   *)
(*    is exact, by squared Euclidean distance, ties by position, and pads  *)
(*    the labels with -1 when it holds fewer than k vectors;               *)
(*  - an exception of a library call is an input of the action (fault).    *)
(***************************************************************************)
EXTENDS Integers, Sequences, FiniteSets, TLC

VARIABLES session, ai_manager, uploads, last, upload_thread, embedding_manager, chat_manager,
          chunk_args, db_manager, history_manager, requests

vars == <<session, ai_manager, uploads, last, upload_thread, embedding_manager, chat_manager,
          chunk_args, db_manager, history_manager, requests>>

-----------------------------------------------------------------------------
(* Bounds *)

MaxUploaded == 2
MaxMessages == 4
MaxRequests == 4
MaxTurns == 2
MaxText == 4
MaxSize == 3

(* How many messages the database calls save. *)
MaxSaves == 3

(* Program constants *)

TOP_K == 5
CONTEXT_CHUNKS == 3

-----------------------------------------------------------------------------
(* Inputs *)

Sessions == {"A", "B"}

FileNames == {"a.pdf", "b.pdf", "n.txt"}

Queries == {"q", "r"}

Credentials == {<<"admin", "admin123">>, <<"admin", "wrong">>}

NoUser == ""

(* Text pieces the splitter yields for each readable PDF. *)
PdfPieces(f) ==
    CASE f = "a.pdf" -> <<"x", "y">>
      [] f = "b.pdf" -> <<"z", "w", "v">>
      [] f = "c.pdf" -> <<"u">>
      [] OTHER -> <<>>

(* The file lists of an upload request: no file, one file, two files. *)
Batches ==
    {<<>>} \cup {<<f>> : f \in FileNames} \cup {<<f, g>> : f \in FileNames, g \in FileNames}

-----------------------------------------------------------------------------
(* Python values *)

None == [isNone |-> TRUE, xb |-> <<>>]

(* seq[idx] with Python's negative indexing; the caller checks the range. *)
PyIndex(seq, idx) == IF idx >= 0 THEN seq[idx + 1] ELSE seq[Len(seq) + idx + 1]

PyIndexError(seq, idx) == idx >= Len(seq) \/ idx < 0 - Len(seq)

-----------------------------------------------------------------------------
(* Documents and the embedding model *)

Document(text, filename, i, total) ==
    [page_content |-> text, source |-> filename, chunk_id |-> i, total_chunks |-> total]

(* chunk.strip() of a piece of text the model keeps whole: the pieces of  *)
(* whitespace only are " " and "".                                        *)
strip_piece(chunk) == IF chunk = " " THEN "" ELSE chunk

(* The loop of lines 619-629 over the chunks split_text returned, given   *)
(* as stripped[i] = chunks[i].strip(): a chunk that is not blank becomes  *)
(* a Document holding the stripped chunk, its index i in `chunks` and     *)
(* len(chunks); a blank chunk is skipped.  The loop from chunk i on.      *)
RECURSIVE chunk_documents(_, _, _, _)
chunk_documents(stripped, filename, empty, i) ==
    IF i > Len(stripped) THEN <<>>
    ELSE IF stripped[i] /= empty
         THEN <<Document(stripped[i], filename, i - 1, Len(stripped))>>
              \o chunk_documents(stripped, filename, empty, i + 1)
         ELSE chunk_documents(stripped, filename, empty, i + 1)

(* create_text_chunks over a text given as the pieces split_text cuts it  *)
(* into with the default chunk_size and chunk_overlap.                    *)
create_text_chunks(text, filename) ==
    chunk_documents([i \in 1..Len(text) |-> strip_piece(text[i])], filename, "", 1)

(* embedding_model.encode of one text, as a vector scaled by 10. *)
encode(text) ==
    CASE text = "x" -> <<10, 0, 0, 0>>
      [] text = "y" -> <<0, 10, 0, 0>>
      [] text = "z" -> <<0, 0, 10, 0>>
      [] text = "w" -> <<0, 0, 0, 10>>
      [] text = "v" -> <<10, 0, 0, 0>>
      [] text = "q" -> <<9, 1, 0, 0>>
      [] OTHER -> <<0, 0, 0, 0>>

encode_all(texts) == [i \in 1..Len(texts) |-> encode(texts[i])]

(* Squared Euclidean distance, the metric of IndexFlatL2. *)
L2(u, v) ==
    (u[1] - v[1]) * (u[1] - v[1]) + (u[2] - v[2]) * (u[2] - v[2])
    + (u[3] - v[3]) * (u[3] - v[3]) + (u[4] - v[4]) * (u[4] - v[4])

(* faiss_index.search(xq, k): the k labels (0-based positions), nearest    *)
(* first, equal distances by position, -1 where the index has no vector.   *)
Closer(xb, xq, i, j) ==
    \/ L2(xb[i], xq) < L2(xb[j], xq)
    \/ L2(xb[i], xq) = L2(xb[j], xq) /\ i < j

Rank(xb, xq, i) == 1 + Cardinality({j \in 1..Len(xb) : Closer(xb, xq, j, i)})

faiss_search(xb, xq, k) ==
    [p \in 1..k |->
        IF p <= Len(xb)
        THEN (CHOOSE i \in 1..Len(xb) : Rank(xb, xq, i) = p) - 1
        ELSE 0 - 1]

-----------------------------------------------------------------------------
(* AIManager *)

Faults == {"none", "encode", "index", "add"}

(* line 166: a new, empty IndexFlatL2 replaces the index *)
new_index(self) == [self EXCEPT !.faiss_index = [isNone |-> FALSE, xb |-> <<>>]]

(* line 167: the vectors are added to the index *)
index_add(self, embeddings) ==
    [self EXCEPT !.faiss_index = [isNone |-> FALSE, xb |-> self.faiss_index.xb \o embeddings]]

(* line 170 *)
store_chunks(self, document_chunks) == [self EXCEPT !.document_chunks = document_chunks]

(* line 171 *)
store_embeddings(self, embeddings) ==
    [self EXCEPT !.embeddings = [isNone |-> FALSE, xb |-> embeddings]]

(* create_embeddings without the test of line 152: the model is used     *)
(* whether it was loaded or not.                                          *)
create_embeddings_ignoring_availability(self, document_chunks, fault) ==
    LET embeddings == encode_all([i \in 1..Len(document_chunks) |-> document_chunks[i].page_content])
    IN  IF fault = "encode"
        THEN [self |-> self, ret |-> FALSE, encode_calls |-> 1]
        ELSE IF fault = "index" \/ Len(document_chunks) = 0
        THEN [self |-> self, ret |-> FALSE, encode_calls |-> 1]
        ELSE IF fault = "add"
        THEN [self |-> new_index(self), ret |-> FALSE, encode_calls |-> 1]
        ELSE [self |-> store_embeddings(
                           store_chunks(index_add(new_index(self), embeddings), document_chunks),
                           embeddings),
              ret |-> TRUE, encode_calls |-> 1]

(* AIManager.create_embeddings; `fault` names the call that raises, if any. *)
(* An empty chunk list makes embeddings.shape[1] raise.                      *)
create_embeddings(self, document_chunks, fault) ==
    LET embeddings == encode_all([i \in 1..Len(document_chunks) |-> document_chunks[i].page_content])
    IN  IF ~self.embeddings_available
        THEN [self |-> self, ret |-> FALSE, encode_calls |-> 0]
        ELSE IF fault = "encode"
        THEN [self |-> self, ret |-> FALSE, encode_calls |-> 1]
        ELSE IF fault = "index" \/ Len(document_chunks) = 0
        THEN [self |-> self, ret |-> FALSE, encode_calls |-> 1]
        ELSE IF fault = "add"
        THEN [self |-> new_index(self), ret |-> FALSE, encode_calls |-> 1]
        ELSE [self |-> store_embeddings(
                           store_chunks(index_add(new_index(self), embeddings), document_chunks),
                           embeddings),
              ret |-> TRUE, encode_calls |-> 1]

(* The loop of lines 193-196 over the labels, from label p on. *)
RECURSIVE relevant_chunks(_, _, _)
relevant_chunks(document_chunks, indices, p) ==
    IF p > Len(indices) THEN <<>>
    ELSE IF indices[p] < Len(document_chunks)
         THEN <<PyIndex(document_chunks, indices[p])>>
              \o relevant_chunks(document_chunks, indices, p + 1)
         ELSE relevant_chunks(document_chunks, indices, p + 1)

(* Whether some label passes the test of line 195 and is out of range at 196. *)
loop_raises(document_chunks, indices) ==
    \E p \in 1..Len(indices) :
        indices[p] < Len(document_chunks) /\ PyIndexError(document_chunks, indices[p])

SearchFaults == {"none", "encode", "search"}

(* search_similar_documents without the test for a missing index: the     *)
(* query is encoded, and the search on None raises inside the try block.  *)
search_without_index_test(self, query, k, fault) ==
    IF ~self.embeddings_available
    THEN [docs |-> <<>>, encode_calls |-> 0, search_calls |-> 0]
    ELSE IF fault = "encode" \/ self.faiss_index.isNone
    THEN [docs |-> <<>>, encode_calls |-> 1, search_calls |-> 0]
    ELSE IF fault = "search"
    THEN [docs |-> <<>>, encode_calls |-> 1, search_calls |-> 1]
    ELSE LET indices == faiss_search(self.faiss_index.xb, encode(query), k)
         IN  IF loop_raises(self.document_chunks, indices)
             THEN [docs |-> <<>>, encode_calls |-> 1, search_calls |-> 1]
             ELSE [docs |-> relevant_chunks(self.document_chunks, indices, 1),
                   encode_calls |-> 1, search_calls |-> 1]

(* AIManager.search_similar_documents *)
search_similar_documents(self, query, k, fault) ==
    IF ~self.embeddings_available \/ self.faiss_index.isNone
    THEN [docs |-> <<>>, encode_calls |-> 0, search_calls |-> 0]
    ELSE IF fault = "encode"
    THEN [docs |-> <<>>, encode_calls |-> 1, search_calls |-> 0]
    ELSE IF fault = "search"
    THEN [docs |-> <<>>, encode_calls |-> 1, search_calls |-> 1]
    ELSE LET indices == faiss_search(self.faiss_index.xb, encode(query), k)
         IN  IF loop_raises(self.document_chunks, indices)
             THEN [docs |-> <<>>, encode_calls |-> 1, search_calls |-> 1]
             ELSE [docs |-> relevant_chunks(self.document_chunks, indices, 1),
                   encode_calls |-> 1, search_calls |-> 1]

UNAVAILABLE == "AI is currently unavailable. Please check your API configuration."
GENERATION_ERROR == "I apologize, but I encountered an error"
ANSWER == "response.text"
UPLOAD_FIRST == "Please upload some PDF documents first before asking questions!"
NO_PROMPT == [parts |-> <<>>, context |-> <<>>, query |-> ""]

Outcomes == {"ok", "raise"}

(* The prompt of lines 211-230.  The template is the same for every call: *)
(* the role, the header of the context section, the context (the text of  *)
(* the first three documents, or the empty string), the question and the  *)
(* instructions; only the context and the question vary.                  *)
prompt_of(query, relevant_docs) ==
    [parts |-> <<"role", "context_header", "context", "question", "instructions">>,
     context |-> [i \in 1..(IF Len(relevant_docs) < CONTEXT_CHUNKS THEN Len(relevant_docs) ELSE CONTEXT_CHUNKS)
                     |-> relevant_docs[i].page_content],
     query |-> query]

(* generate_response without the test of line 207: the model is invoked   *)
(* whether it is configured or not.                                       *)
generate_response_ignoring_availability(self, query, relevant_docs, outcome) ==
    IF outcome = "raise"
    THEN [response |-> GENERATION_ERROR, generate_calls |-> 1,
          prompt |-> prompt_of(query, relevant_docs)]
    ELSE [response |-> ANSWER, generate_calls |-> 1,
          prompt |-> prompt_of(query, relevant_docs)]

(* AIManager.generate_response; `outcome` is what model.generate_content does. *)
generate_response(self, query, relevant_docs, outcome) ==
    IF ~self.gemini_available
    THEN [response |-> UNAVAILABLE, generate_calls |-> 0, prompt |-> NO_PROMPT]
    ELSE IF outcome = "raise"
    THEN [response |-> GENERATION_ERROR, generate_calls |-> 1,
          prompt |-> prompt_of(query, relevant_docs)]
    ELSE [response |-> ANSWER, generate_calls |-> 1,
          prompt |-> prompt_of(query, relevant_docs)]

-----------------------------------------------------------------------------
(* Request handlers of src/app.py *)

(* The defaults of create_text_chunks (line 606) and of Config. *)
DefaultArgs == [text |-> <<>>, chunk_size |-> 1000, chunk_overlap |-> 200]

NoSession == [username |-> NoUser, uploaded_files |-> <<>>, messages |-> <<>>]

(* What a request returned and what it invoked. *)
NoCall ==
    [op |-> "", sid |-> "", success |-> FALSE, message |-> "", response |-> "",
     timestamp |-> "", docs |-> <<>>, prompt |-> NO_PROMPT, encode_calls |-> 0,
     search_calls |-> 0, generate_calls |-> 0, embedding_success |-> FALSE,
     errors |-> <<>>, total_chunks |-> 0, query |-> "", k |-> 0, fault |-> "none",
     raised |-> FALSE, files |-> <<>>, passed |-> <<>>, text |-> <<>>, chunks |-> <<>>,
     chunk_size |-> 0, chunk_overlap |-> 0, username |-> "", conversation_id |-> "",
     limit |-> 0, returned |-> <<>>]

NotAuthenticated(op, s) ==
    [NoCall EXCEPT !.op = op, !.sid = s, !.message = "Not authenticated"]

Idle == [pc |-> "idle", sid |-> "", snapshot |-> NoSession, processed_files |-> <<>>,
         errors |-> <<>>, chunks |-> <<>>, embeddings |-> <<>>]

(* SimpleDatabaseManager.authenticate_user over the test users *)
authenticate_user(username, password) ==
    \/ username = "admin" /\ password = "admin123"
    \/ username = "demo" /\ password = "demo123"

login(s, cred) ==
    /\ session' = IF authenticate_user(cred[1], cred[2])
                  THEN [session EXCEPT ![s] = [username |-> cred[1], uploaded_files |-> <<>>,
                                               messages |-> <<>>]]
                  ELSE session
    /\ last' = [NoCall EXCEPT !.op = "login", !.sid = s,
                              !.success = authenticate_user(cred[1], cred[2])]
    /\ UNCHANGED <<ai_manager, uploads, upload_thread, embedding_manager, chat_manager, chunk_args, db_manager, history_manager>>

logout(s) ==
    /\ session' = [session EXCEPT ![s] = NoSession]
    /\ last' = [NoCall EXCEPT !.op = "logout", !.sid = s, !.success = TRUE]
    /\ UNCHANGED <<ai_manager, uploads, upload_thread, embedding_manager, chat_manager, chunk_args, db_manager, history_manager>>

(* What the upload request finds in a file: a readable PDF with text, a   *)
(* file of size 0, a file PdfReader cannot parse, a PDF whose pages give  *)
(* no text, a PDF whose pages give only whitespace, a PDF whose text the  *)
(* splitter fails on, or a name that does not end in .pdf.                *)
FileKind(f) ==
    CASE f \in {"a.pdf", "b.pdf"} -> "text"
      [] f = "e.pdf" -> "empty"
      [] f = "x.pdf" -> "broken"
      [] f = "s.pdf" -> "scan"
      [] f = "w.pdf" -> "blank"
      [] f = "c.pdf" -> "unchunkable"
      [] OTHER -> "notpdf"

(* extract_text_from_pdf: the reader's exception is raised again; pages   *)
(* without text add nothing, and text.strip() of line 599 turns a text of *)
(* whitespace only into the empty text.                                   *)
extract_text_from_pdf(f) ==
    CASE FileKind(f) = "broken" -> [raised |-> TRUE, text |-> <<>>]
      [] FileKind(f) \in {"scan", "blank"} -> [raised |-> FALSE, text |-> <<>>]
      [] OTHER -> [raised |-> FALSE, text |-> PdfPieces(f)]

(* The pass over a file with one message for every file that gives no     *)
(* chunks: a text of whitespace only is reported like a reader error.     *)
process_file_one_error_for_all(acc, f) ==
    IF FileKind(f) = "notpdf"
    THEN [acc EXCEPT !.errors = Append(@, <<f, "Only PDF files are allowed">>)]
    ELSE IF FileKind(f) = "empty"
    THEN [acc EXCEPT !.errors = Append(@, <<f, "File is empty">>),
                     !.uploads = @ \ {f}]
    ELSE LET extracted == extract_text_from_pdf(f)
         IN  IF extracted.raised \/ extracted.text = <<>> \/ FileKind(f) = "unchunkable"
             THEN [acc EXCEPT !.errors = Append(@, <<f, "Error processing">>),
                              !.uploads = @ \ {f}]
             ELSE LET chunks == create_text_chunks(extracted.text, f)
                  IN  [acc EXCEPT !.uploads = @ \cup {f},
                                  !.all_document_chunks = @ \o chunks,
                                  !.processed_files = Append(@, [name |-> f, size |-> Len(chunks)])]

(* One pass of the loop of lines 348-399 over a file. *)
process_file(acc, f) ==
    IF FileKind(f) = "notpdf"
    THEN [acc EXCEPT !.errors = Append(@, <<f, "Only PDF files are allowed">>)]
    ELSE IF FileKind(f) = "empty"
    THEN [acc EXCEPT !.errors = Append(@, <<f, "File is empty">>),
                     !.uploads = @ \ {f}]
    ELSE LET extracted == extract_text_from_pdf(f)
         IN  IF extracted.raised \/ (extracted.text /= <<>> /\ FileKind(f) = "unchunkable")
             THEN [acc EXCEPT !.errors = Append(@, <<f, "Error processing">>),
                              !.uploads = @ \ {f}]
             ELSE IF extracted.text = <<>>
             THEN [acc EXCEPT !.errors = Append(@, <<f, "No text could be extracted">>),
                              !.uploads = @ \ {f}]
             ELSE LET chunks == create_text_chunks(extracted.text, f)
                  IN  [acc EXCEPT !.uploads = @ \cup {f},
                                  !.all_document_chunks = @ \o chunks,
                                  !.processed_files = Append(@, [name |-> f, size |-> Len(chunks)])]

(* The loop of lines 348-399 giving up at the first file it cannot use. *)
RECURSIVE process_files_until_failure(_, _, _)
process_files_until_failure(acc, files, i) ==
    IF i > Len(files) \/ FileKind(files[i]) /= "text" THEN acc
    ELSE process_files_until_failure(process_file(acc, files[i]), files, i + 1)

RECURSIVE process_files(_, _, _)
process_files(acc, files, i) ==
    IF i > Len(files) THEN acc
    ELSE process_files(process_file(acc, files[i]), files, i + 1)

upload_loop(files) ==
    process_files([uploads |-> uploads, errors |-> <<>>, all_document_chunks |-> <<>>,
                   processed_files |-> <<>>], files, 1)

(* How many files of a request end up in processed_files. *)
Readable(files) == Cardinality({i \in 1..Len(files) : FileKind(files[i]) = "text"})

(* Lines 412-436: the session update and the answer of the upload request. *)
upload_result(s, acc, embedding_success) ==
    [NoCall EXCEPT !.op = "upload", !.sid = s,
                   !.success = acc.processed_files /= <<>>,
                   !.embedding_success = embedding_success,
                   !.errors = acc.errors,
                   !.total_chunks = Len(acc.all_document_chunks)]

(* The chunks of the file processed last in a request. *)
last_file_chunks(acc) ==
    LET f == acc.processed_files[Len(acc.processed_files)].name
    IN  create_text_chunks(PdfPieces(f), f)

(* upload with create_embeddings called inside the loop, once for each    *)
(* processed file on the chunks of that file: the index of the last file  *)
(* replaces the ones built before it.                                     *)
upload_embedding_each_file(s, files) ==
    /\ Len(session[s].uploaded_files) + Readable(files) <= MaxUploaded
    /\ IF session[s].username = NoUser
       THEN /\ last' = NotAuthenticated("upload", s)
            /\ UNCHANGED <<session, ai_manager, uploads>>
       ELSE IF files = <<>>
       THEN /\ last' = [NoCall EXCEPT !.op = "upload", !.sid = s,
                                      !.message = "No files provided"]
            /\ UNCHANGED <<session, ai_manager, uploads>>
       ELSE \E acc \in {upload_loop(files)} :
                /\ uploads' = acc.uploads
                /\ session' = IF acc.processed_files /= <<>>
                              THEN [session EXCEPT ![s].uploaded_files = @ \o acc.processed_files]
                              ELSE session
                /\ IF acc.processed_files /= <<>>
                   THEN \E fault \in Faults :
                          \E ce \in {create_embeddings(ai_manager, last_file_chunks(acc), fault)} :
                              /\ ai_manager' = ce.self
                              /\ last' = [upload_result(s, acc, ce.ret)
                                            EXCEPT !.encode_calls =
                                                      ce.encode_calls * Len(acc.processed_files),
                                                   !.fault = fault, !.files = files,
                                                   !.passed = last_file_chunks(acc)]
                   ELSE /\ ai_manager' = ai_manager
                        /\ last' = [upload_result(s, acc, FALSE) EXCEPT !.files = files]
    /\ UNCHANGED <<upload_thread, embedding_manager, chat_manager, chunk_args, db_manager, history_manager>>

(* The fault is drawn where create_embeddings is called (line 405). *)
upload(s, files) ==
    /\ Len(session[s].uploaded_files) + Readable(files) <= MaxUploaded
    /\ IF session[s].username = NoUser
       THEN /\ last' = NotAuthenticated("upload", s)
            /\ UNCHANGED <<session, ai_manager, uploads>>
       ELSE IF files = <<>>
       THEN /\ last' = [NoCall EXCEPT !.op = "upload", !.sid = s,
                                      !.message = "No files provided"]
            /\ UNCHANGED <<session, ai_manager, uploads>>
       ELSE \E acc \in {upload_loop(files)} :
                /\ uploads' = acc.uploads
                /\ session' = IF acc.processed_files /= <<>>
                              THEN [session EXCEPT ![s].uploaded_files = @ \o acc.processed_files]
                              ELSE session
                /\ IF acc.all_document_chunks /= <<>>
                   THEN \E fault \in Faults :
                          \E ce \in {create_embeddings(ai_manager, acc.all_document_chunks, fault)} :
                              /\ ai_manager' = ce.self
                              /\ last' = [upload_result(s, acc, ce.ret)
                                            EXCEPT !.encode_calls = ce.encode_calls,
                                                   !.fault = fault, !.files = files,
                                                   !.passed = acc.all_document_chunks]
                   ELSE /\ ai_manager' = ai_manager
                        /\ last' = [upload_result(s, acc, FALSE) EXCEPT !.files = files]
    /\ UNCHANGED <<upload_thread, embedding_manager, chat_manager, chunk_args, db_manager, history_manager>>

Timestamps == {"12:00:00", "12:00:01"}

(* chat_response without the test of line 452: every message is searched. *)
chat_response_always_searches(uploaded_files, message, fault, outcome) ==
    LET found == search_similar_documents(ai_manager, message, TOP_K, fault)
        gen == generate_response(ai_manager, message, found.docs, outcome)
    IN  [response |-> gen.response, docs |-> found.docs, prompt |-> gen.prompt,
         encode_calls |-> found.encode_calls, search_calls |-> found.search_calls,
         generate_calls |-> gen.generate_calls]

(* Lines 449-464: the response to a message and what producing it invoked. *)
chat_response(uploaded_files, message, fault, outcome) ==
    IF uploaded_files = <<>>
    THEN [response |-> UPLOAD_FIRST, docs |-> <<>>, prompt |-> NO_PROMPT,
          encode_calls |-> 0, search_calls |-> 0, generate_calls |-> 0]
    ELSE LET found == search_similar_documents(ai_manager, message, TOP_K, fault)
             gen == generate_response(ai_manager, message, found.docs, outcome)
         IN  [response |-> gen.response, docs |-> found.docs, prompt |-> gen.prompt,
              encode_calls |-> found.encode_calls, search_calls |-> found.search_calls,
              generate_calls |-> gen.generate_calls]

(* chat_message answering a failed turn with an error instead of          *)
(* recording it: the response of a failed search or generation is not     *)
(* appended to the session.                                               *)
chat_message_drops_failed_turn(s) ==
    /\ Len(session[s].messages) + 2 <= MaxMessages
    /\ IF session[s].username = NoUser
       THEN /\ last' = NotAuthenticated("chat_message", s)
            /\ UNCHANGED session
       ELSE \E message \in Queries \cup {""} :
            IF message = ""
            THEN /\ last' = [NoCall EXCEPT !.op = "chat_message", !.sid = s,
                                           !.message = "Empty message"]
                 /\ UNCHANGED session
            ELSE \E fault \in (IF session[s].uploaded_files = <<>> THEN {"none"} ELSE SearchFaults),
                    outcome \in (IF session[s].uploaded_files = <<>> THEN {"ok"} ELSE Outcomes),
                    timestamp \in Timestamps :
                 LET r == chat_response(session[s].uploaded_files, message, fault, outcome)
                 IN  IF r.response \in {UNAVAILABLE, GENERATION_ERROR}
                     THEN /\ last' = [NoCall EXCEPT !.op = "chat_message", !.sid = s,
                                                    !.query = message, !.fault = fault,
                                                    !.message = r.response]
                          /\ UNCHANGED session
                     ELSE /\ session' = [session EXCEPT ![s].messages =
                                           @ \o <<[role |-> "user", content |-> message,
                                                   timestamp |-> timestamp],
                                                  [role |-> "assistant", content |-> r.response,
                                                   timestamp |-> timestamp]>>]
                          /\ last' = [NoCall EXCEPT !.op = "chat_message", !.sid = s,
                                                    !.success = TRUE,
                                                    !.query = message, !.k = TOP_K,
                                                    !.fault = fault,
                                                    !.response = r.response, !.timestamp = timestamp,
                                                    !.docs = r.docs, !.prompt = r.prompt,
                                                    !.encode_calls = r.encode_calls,
                                                    !.search_calls = r.search_calls,
                                                    !.generate_calls = r.generate_calls]
    /\ UNCHANGED <<ai_manager, uploads, upload_thread, embedding_manager, chat_manager, chunk_args, db_manager, history_manager>>

(* The inputs are drawn where the handler reads them: the message at line   *)
(* 444, the behaviour of the models at lines 459-462, the clock at line 468. *)
chat_message(s) ==
    /\ Len(session[s].messages) + 2 <= MaxMessages
    /\ IF session[s].username = NoUser
       THEN /\ last' = NotAuthenticated("chat_message", s)
            /\ UNCHANGED session
       ELSE \E message \in Queries \cup {""} :
            IF message = ""
            THEN /\ last' = [NoCall EXCEPT !.op = "chat_message", !.sid = s,
                                           !.message = "Empty message"]
                 /\ UNCHANGED session
            ELSE \E fault \in (IF session[s].uploaded_files = <<>> THEN {"none"} ELSE SearchFaults),
                    outcome \in (IF session[s].uploaded_files = <<>> THEN {"ok"} ELSE Outcomes),
                    timestamp \in Timestamps :
                 \E r \in {chat_response(session[s].uploaded_files, message, fault, outcome)} :
                     /\ session' = [session EXCEPT ![s].messages =
                                      @ \o <<[role |-> "user", content |-> message,
                                              timestamp |-> timestamp],
                                             [role |-> "assistant", content |-> r.response,
                                              timestamp |-> timestamp]>>]
                     /\ last' = [NoCall EXCEPT !.op = "chat_message", !.sid = s,
                                               !.success = TRUE,
                                               !.query = message, !.k = TOP_K,
                                               !.fault = fault,
                                               !.response = r.response, !.timestamp = timestamp,
                                               !.docs = r.docs, !.prompt = r.prompt,
                                               !.encode_calls = r.encode_calls,
                                               !.search_calls = r.search_calls,
                                               !.generate_calls = r.generate_calls]
    /\ UNCHANGED <<ai_manager, uploads, upload_thread, embedding_manager, chat_manager, chunk_args, db_manager, history_manager>>

RECURSIVE without(_, _)
without(uploaded_files, filename) ==
    IF uploaded_files = <<>> THEN <<>>
    ELSE IF Head(uploaded_files).name /= filename
         THEN <<Head(uploaded_files)>> \o without(Tail(uploaded_files), filename)
         ELSE without(Tail(uploaded_files), filename)

(* remove_file without the test of line 493: any request removes the file. *)
remove_file_without_login_test(s) ==
    /\ \E filename \in FileNames :
            /\ session' = [session EXCEPT ![s].uploaded_files = without(@, filename)]
            /\ uploads' = uploads \ {filename}
            /\ last' = [NoCall EXCEPT !.op = "remove_file", !.sid = s, !.success = TRUE,
                                      !.files = <<filename>>]
    /\ UNCHANGED <<ai_manager, upload_thread, embedding_manager, chat_manager, chunk_args, db_manager, history_manager>>

remove_file(s) ==
    /\ IF session[s].username = NoUser
       THEN /\ last' = NotAuthenticated("remove_file", s)
            /\ UNCHANGED <<session, uploads>>
       ELSE \E filename \in FileNames :
            /\ session' = [session EXCEPT ![s].uploaded_files = without(@, filename)]
            /\ uploads' = uploads \ {filename}
            /\ last' = [NoCall EXCEPT !.op = "remove_file", !.sid = s, !.success = TRUE,
                                      !.files = <<filename>>]
    /\ UNCHANGED <<ai_manager, upload_thread, embedding_manager, chat_manager, chunk_args, db_manager, history_manager>>

(* clear_files that starts the session over: the messages go as well. *)
clear_files_and_messages(s) ==
    /\ IF session[s].username = NoUser
       THEN /\ last' = NotAuthenticated("clear_files", s)
            /\ UNCHANGED <<session, uploads>>
       ELSE /\ session' = [session EXCEPT ![s].uploaded_files = <<>>, ![s].messages = <<>>]
            /\ uploads' = uploads \ {session[s].uploaded_files[i].name :
                                        i \in 1..Len(session[s].uploaded_files)}
            /\ last' = [NoCall EXCEPT !.op = "clear_files", !.sid = s, !.success = TRUE]
    /\ UNCHANGED <<ai_manager, upload_thread, embedding_manager, chat_manager, chunk_args, db_manager, history_manager>>

clear_files(s) ==
    /\ IF session[s].username = NoUser
       THEN /\ last' = NotAuthenticated("clear_files", s)
            /\ UNCHANGED <<session, uploads>>
       ELSE /\ session' = [session EXCEPT ![s].uploaded_files = <<>>]
            /\ uploads' = uploads \ {session[s].uploaded_files[i].name :
                                        i \in 1..Len(session[s].uploaded_files)}
            /\ last' = [NoCall EXCEPT !.op = "clear_files", !.sid = s, !.success = TRUE]
    /\ UNCHANGED <<ai_manager, upload_thread, embedding_manager, chat_manager, chunk_args, db_manager, history_manager>>

(* current_conversation_id is never set to a value, so clear_conversation *)
(* never reaches db_manager.delete_conversation.                           *)
new_conversation(s) ==
    /\ IF session[s].username = NoUser
       THEN /\ last' = NotAuthenticated("new_conversation", s)
            /\ UNCHANGED session
       ELSE /\ session' = [session EXCEPT ![s].messages = <<>>]
            /\ last' = [NoCall EXCEPT !.op = "new_conversation", !.sid = s, !.success = TRUE]
    /\ UNCHANGED <<ai_manager, uploads, upload_thread, embedding_manager, chat_manager, chunk_args, db_manager, history_manager>>

clear_conversation(s) ==
    /\ IF session[s].username = NoUser
       THEN /\ last' = NotAuthenticated("clear_conversation", s)
            /\ UNCHANGED session
       ELSE /\ session' = [session EXCEPT ![s].messages = <<>>]
            /\ last' = [NoCall EXCEPT !.op = "clear_conversation", !.sid = s, !.success = TRUE]
    /\ UNCHANGED <<ai_manager, uploads, upload_thread, embedding_manager, chat_manager, chunk_args, db_manager, history_manager>>

-----------------------------------------------------------------------------
(* EmbeddingManager of src/embedding.py *)

EMFaults == {"none", "from_documents"}

(* FAISS.from_documents: the store pairs each document with its vector. *)
from_documents(documents) ==
    [isNone |-> FALSE, docs |-> documents,
     xb |-> encode_all([i \in 1..Len(documents) |-> documents[i].page_content])]

NoStore == [isNone |-> TRUE, docs |-> <<>>, xb |-> <<>>]

NoManager == [vectorstore |-> NoStore, retriever |-> NoStore]

(* EmbeddingManager.create_embeddings.  from_documents raises on an empty   *)
(* list or when `fault` says so; as_retriever only wraps the new store.     *)
em_create_embeddings(self, documents, fault) ==
    IF fault = "from_documents" \/ Len(documents) = 0
    THEN [self |-> self, ret |-> FALSE]
    ELSE [self |-> [vectorstore |-> from_documents(documents),
                    retriever |-> from_documents(documents)],
          ret |-> TRUE]

(* The documents of the store at the labels that are not -1. *)
RECURSIVE store_docs(_, _, _)
store_docs(docs, indices, p) ==
    IF p > Len(indices) THEN <<>>
    ELSE IF indices[p] = 0 - 1
         THEN store_docs(docs, indices, p + 1)
         ELSE <<docs[indices[p] + 1]>> \o store_docs(docs, indices, p + 1)

(* EmbeddingManager.search: the retriever searches its store with TOP_K. *)
em_search(self, query, fault) ==
    IF self.vectorstore.isNone \/ self.retriever.isNone
    THEN [docs |-> <<>>, encode_calls |-> 0, search_calls |-> 0]
    ELSE IF fault = "encode"
    THEN [docs |-> <<>>, encode_calls |-> 1, search_calls |-> 0]
    ELSE IF fault = "search"
    THEN [docs |-> <<>>, encode_calls |-> 1, search_calls |-> 1]
    ELSE [docs |-> store_docs(self.retriever.docs,
                              faiss_search(self.retriever.xb, encode(query), TOP_K), 1),
          encode_calls |-> 1, search_calls |-> 1]

-----------------------------------------------------------------------------
(* The chunker on texts given character by character.  The splitter is    *)
(* RecursiveCharacterTextSplitter(chunk_size, chunk_overlap,              *)
(* length_function=len, separators=["\n\n", "\n", " ", ""]), which keeps   *)
(* each separator at the start of the piece that follows it.              *)

Whitespace == {" ", "\n"}

SEPARATORS_WITHOUT_CHARS == <<<<"\n", "\n">>, <<"\n">>, <<" ">>>>

SEPARATORS == <<<<"\n", "\n">>, <<"\n">>, <<" ">>, <<>>>>

(* str.strip() *)
strip(chunk) ==
    LET solid == {i \in 1..Len(chunk) : chunk[i] \notin Whitespace}
    IN  IF solid = {} THEN <<>>
        ELSE SubSeq(chunk, CHOOSE i \in solid : \A j \in solid : i <= j,
                           CHOOSE i \in solid : \A j \in solid : j <= i)

occurs(text, sep, p) ==
    /\ p + Len(sep) - 1 <= Len(text)
    /\ SubSeq(text, p, p + Len(sep) - 1) = sep

(* re.split on the separator: the pieces between its matches, found from  *)
(* the left and not overlapping.                                          *)
RECURSIVE re_split(_, _, _, _)
re_split(text, sep, p, piece) ==
    IF p > Len(text) THEN <<piece>>
    ELSE IF occurs(text, sep, p)
         THEN <<piece>> \o re_split(text, sep, p + Len(sep), <<>>)
         ELSE re_split(text, sep, p + 1, Append(piece, text[p]))

(* The splits on a separator: the characters for the empty separator,     *)
(* else the first piece and each later piece behind the separator; empty  *)
(* splits are left out.                                                   *)
split_text_with_regex(text, sep) ==
    LET pieces == IF sep = <<>> THEN [i \in 1..Len(text) |-> <<text[i]>>]
                  ELSE LET raw == re_split(text, sep, 1, <<>>)
                       IN  [i \in 1..Len(raw) |-> IF i = 1 THEN raw[1] ELSE sep \o raw[i]]
    IN  SelectSeq(pieces, LAMBDA piece : piece /= <<>>)

RECURSIVE flatten(_)
flatten(docs) == IF docs = <<>> THEN <<>> ELSE Head(docs) \o flatten(Tail(docs))

(* _join_docs: the stripped concatenation, <<>> standing for None *)
join_docs(current_doc) == strip(flatten(current_doc))

(* The while loop of _merge_splits that drops splits from the front of    *)
(* the current chunk until what is left fits the overlap and the new split. *)
RECURSIVE pop_docs(_, _, _, _, _)
pop_docs(current_doc, total, len, chunk_size, chunk_overlap) ==
    IF total > chunk_overlap \/ (total + len > chunk_size /\ total > 0)
    THEN pop_docs(Tail(current_doc), total - Len(Head(current_doc)), len,
                  chunk_size, chunk_overlap)
    ELSE [current_doc |-> current_doc, total |-> total]

(* _merge_splits from split i on *)
RECURSIVE merge_from(_, _, _, _, _, _, _)
merge_from(splits, i, docs, current_doc, total, chunk_size, chunk_overlap) ==
    IF i > Len(splits)
    THEN IF join_docs(current_doc) = <<>> THEN docs ELSE Append(docs, join_docs(current_doc))
    ELSE LET d == splits[i]
             full == total + Len(d) > chunk_size /\ Len(current_doc) > 0
             docs1 == IF full /\ join_docs(current_doc) /= <<>>
                      THEN Append(docs, join_docs(current_doc)) ELSE docs
             left == IF full THEN pop_docs(current_doc, total, Len(d), chunk_size, chunk_overlap)
                     ELSE [current_doc |-> current_doc, total |-> total]
         IN  merge_from(splits, i + 1, docs1, Append(left.current_doc, d),
                        left.total + Len(d), chunk_size, chunk_overlap)

(* _merge_splits that never joins: every split is a chunk of its own. *)
merge_splits_each_split_alone(splits, chunk_size, chunk_overlap) ==
    SelectSeq([i \in 1..Len(splits) |-> strip(splits[i])], LAMBDA doc : doc /= <<>>)

merge_splits(splits, chunk_size, chunk_overlap) ==
    merge_from(splits, 1, <<>>, <<>>, 0, chunk_size, chunk_overlap)

(* _split_text: the first separator that is empty or occurs in the text   *)
(* (the last one if none does) cuts the text; the splits shorter than     *)
(* chunk_size are merged, a split that is not is cut with the separators  *)
(* that follow, or kept as it is when none follows.                       *)
RECURSIVE split_text_with(_, _, _, _)
RECURSIVE split_loop(_, _, _, _, _, _, _)
split_loop(splits, i, final_chunks, good_splits, new_separators, chunk_size, chunk_overlap) ==
    LET merged == IF good_splits = <<>> THEN <<>>
                  ELSE merge_splits(good_splits, chunk_size, chunk_overlap)
    IN  IF i > Len(splits) THEN final_chunks \o merged
        ELSE IF Len(splits[i]) < chunk_size
        THEN split_loop(splits, i + 1, final_chunks, Append(good_splits, splits[i]),
                        new_separators, chunk_size, chunk_overlap)
        ELSE split_loop(splits, i + 1,
                        final_chunks \o merged
                          \o (IF new_separators = <<>> THEN <<splits[i]>>
                              ELSE split_text_with(splits[i], new_separators,
                                                   chunk_size, chunk_overlap)),
                        <<>>, new_separators, chunk_size, chunk_overlap)

split_text_with(text, separators, chunk_size, chunk_overlap) ==
    LET usable == {i \in 1..Len(separators) :
                     \/ separators[i] = <<>>
                     \/ \E p \in 1..Len(text) : occurs(text, separators[i], p)}
        at == IF usable = {} THEN Len(separators)
              ELSE CHOOSE i \in usable : \A j \in usable : i <= j
        separator == separators[at]
        new_separators == IF usable = {} \/ separator = <<>> THEN <<>>
                          ELSE SubSeq(separators, at + 1, Len(separators))
    IN  split_loop(split_text_with_regex(text, separator), 1, <<>>, <<>>, new_separators,
                   chunk_size, chunk_overlap)

(* text_splitter.split_text(text) *)
split_text(text, chunk_size, chunk_overlap) ==
    split_text_with(text, SEPARATORS, chunk_size, chunk_overlap)

(* create_text_chunks(text, filename, chunk_size, chunk_overlap): the     *)
(* splitter refuses an overlap larger than the chunk size, and the        *)
(* exception is raised again at line 636.                                 *)
create_text_chunks_with(text, filename, chunk_size, chunk_overlap) ==
    IF chunk_overlap > chunk_size
    THEN [raised |-> TRUE, chunks |-> <<>>, documents |-> <<>>]
    ELSE LET chunks == split_text(text, chunk_size, chunk_overlap)
         IN  [raised |-> FALSE, chunks |-> chunks,
              documents |-> chunk_documents([i \in 1..Len(chunks) |-> strip(chunks[i])],
                                            filename, <<>>, 1)]

(* PDFProcessor.create_document_chunks with the splitter __init__ built   *)
(* from the configured sizes: a blank text gives no document at once.     *)
create_document_chunks_with(text, filename, chunk_size, chunk_overlap) ==
    IF chunk_overlap > chunk_size
    THEN [raised |-> TRUE, chunks |-> <<>>, documents |-> <<>>]
    ELSE IF strip(text) = <<>>
    THEN [raised |-> FALSE, chunks |-> <<>>, documents |-> <<>>]
    ELSE LET chunks == split_text(text, chunk_size, chunk_overlap)
         IN  [raised |-> FALSE, chunks |-> chunks,
              documents |-> chunk_documents([i \in 1..Len(chunks) |-> strip(chunks[i])],
                                            filename, <<>>, 1)]

-----------------------------------------------------------------------------
(* PDFProcessor of src/processor.py *)

NO_TEXT == "No text could be extracted from the PDF"
NO_CHUNKS == "No document chunks were created from the PDF"
READ_ERROR == "PdfReadError"
SPLIT_ERROR == "split_text error"

(* PDFProcessor.create_document_chunks over the pieces of the text. *)
create_document_chunks(text, filename) ==
    IF text = <<>> THEN <<>>
    ELSE chunk_documents([i \in 1..Len(text) |-> strip_piece(text[i])], filename, "", 1)

(* PDFProcessor.process_pdf: the documents of the file, or the exception  *)
(* raised to the caller.                                                  *)
process_pdf(f) ==
    LET extracted == extract_text_from_pdf(f)
        documents == create_document_chunks(extracted.text, f)
    IN  IF extracted.raised
        THEN [raised |-> TRUE, error |-> READ_ERROR, documents |-> <<>>]
        ELSE IF extracted.text = <<>>
        THEN [raised |-> TRUE, error |-> NO_TEXT, documents |-> <<>>]
        ELSE IF FileKind(f) = "unchunkable"
        THEN [raised |-> TRUE, error |-> SPLIT_ERROR, documents |-> <<>>]
        ELSE IF documents = <<>>
        THEN [raised |-> TRUE, error |-> NO_CHUNKS, documents |-> <<>>]
        ELSE [raised |-> FALSE, error |-> "", documents |-> documents]

-----------------------------------------------------------------------------
(* ChatManager of src/chat.py *)

CM_ERROR == "I apologize, but I encountered an error while processing your request. Please try again."
STANDALONE == "standalone question"

(* After __init__: the llm and an empty memory, no retriever, no chain. *)
NoChatManager == [retriever |-> NoStore, chain |-> NoStore, memory |-> 0]

CMFaults == {"none", "from_llm"}

(* ChatManager.set_retriever: the retriever is stored first; the chain is  *)
(* built over it unless the retriever is None or from_llm raises.          *)
cm_set_retriever(self, retriever, fault) ==
    IF retriever.isNone \/ fault = "from_llm"
    THEN [self EXCEPT !.retriever = retriever]
    ELSE [self EXCEPT !.retriever = retriever, !.chain = retriever]

(* ChatManager.reset_conversation *)
cm_reset_conversation(self) == [self EXCEPT !.memory = 0]

(* chain.invoke of the ConversationalRetrievalChain built at lines 81-88,  *)
(* with the memory of line 49: when the memory holds earlier turns the llm *)
(* first rewrites the question into a standalone one, then the retriever   *)
(* fetches the documents and the llm answers from qa_prompt; the turn is   *)
(* saved to the memory when the chain returns.                             *)
chain_invoke(self, query, outcome) ==
    LET question == IF self.memory > 0 THEN STANDALONE ELSE query
        docs == store_docs(self.chain.docs,
                           faiss_search(self.chain.xb, encode(question), TOP_K), 1)
        prompt == [parts |-> <<"role", "context", "question">>,
                   context |-> [i \in 1..Len(docs) |-> docs[i].page_content],
                   query |-> question]
    IN  IF outcome = "raise"
        THEN [self |-> self, raised |-> TRUE, llm_calls |-> 1, prompt |-> prompt]
        ELSE [self |-> [self EXCEPT !.memory = @ + 1], raised |-> FALSE,
              llm_calls |-> IF self.memory > 0 THEN 2 ELSE 1, prompt |-> prompt]

(* Lines 115-131: the messages of the direct call.  With documents, the    *)
(* system message holds the text of all of them; without, it is a generic  *)
(* instruction and no context section.                                     *)
cm_messages(query, context_docs) ==
    IF Len(context_docs) > 0
    THEN [parts |-> <<"role", "context_header", "context", "instructions", "question">>,
          context |-> [i \in 1..Len(context_docs) |-> context_docs[i].page_content],
          query |-> query]
    ELSE [parts |-> <<"role", "question">>, context |-> <<>>, query |-> query]

(* ChatManager.generate_response; `outcome` is what the llm does. *)
cm_generate_response(self, query, context_docs, outcome) ==
    IF ~self.chain.isNone /\ ~self.retriever.isNone
    THEN LET r == chain_invoke(self, query, outcome)
         IN  [self |-> r.self, response |-> IF r.raised THEN CM_ERROR ELSE ANSWER,
              generate_calls |-> r.llm_calls, prompt |-> r.prompt]
    ELSE [self |-> self, response |-> IF outcome = "raise" THEN CM_ERROR ELSE ANSWER,
          generate_calls |-> 1, prompt |-> cm_messages(query, context_docs)]

-----------------------------------------------------------------------------
(* The database managers: DatabaseManager of src/database.py,             *)
(* MongoDatabaseManager of src/database_mongo.py and SimpleDatabaseManager *)
(* of src/app.py.  A collection and a list are both the sequence of their *)
(* documents in insertion order; datetime.now() is the field `now`.       *)

Usernames == {"admin", "demo"}

ConversationIds == {"c1", "c2"}

Roles == {"user", "assistant"}

Limits == {1, 2}

Managers ==
    {"DatabaseManager", "DatabaseManager.memory", "MongoDatabaseManager",
     "MongoDatabaseManager.fallback", "SimpleDatabaseManager"}

(* The managers the application can end up with at lines 242-249. *)
AppManagers == {"MongoDatabaseManager", "MongoDatabaseManager.fallback", "SimpleDatabaseManager"}

(* __init__ of each class, with and without a MongoDB to connect to. *)
NewManager(m) ==
    [cls |-> CASE m \in {"DatabaseManager", "DatabaseManager.memory"} -> "DatabaseManager"
               [] m \in {"MongoDatabaseManager", "MongoDatabaseManager.fallback"}
                    -> "MongoDatabaseManager"
               [] OTHER -> "SimpleDatabaseManager",
     mongodb_available |-> m \in {"DatabaseManager", "MongoDatabaseManager"},
     messages |-> <<>>, conversations |-> <<>>, now |-> 0]

NewManagers == [m \in Managers |-> NewManager(m)]

TYPE_ERROR == "TypeError"

Of(username, conversation_id, doc) ==
    doc.username = username /\ doc.conversation_id = conversation_id

(* update_one(..., upsert=True) of lines 170-181 *)
upsert_conversation(conversations, username, conversation_id, now) ==
    IF \E i \in 1..Len(conversations) : Of(username, conversation_id, conversations[i])
    THEN [i \in 1..Len(conversations) |->
            IF i = (CHOOSE j \in 1..Len(conversations) :
                       /\ Of(username, conversation_id, conversations[j])
                       /\ \A k \in 1..(j - 1) : ~Of(username, conversation_id, conversations[k]))
            THEN [conversations[i] EXCEPT !.updated_at = now]
            ELSE conversations[i]]
    ELSE Append(conversations, [username |-> username, conversation_id |-> conversation_id,
                                created_at |-> now, updated_at |-> now])

(* save_conversation_message: the message is stored with the time of the  *)
(* call; MongoDatabaseManager with a database also touches the            *)
(* conversation, and without one hands the call to its fallback manager.  *)
save_conversation_message(self, username, conversation_id, role, content) ==
    LET now == self.now + 1
        message_data == [username |-> username, conversation_id |-> conversation_id,
                         role |-> role, content |-> content, timestamp |-> now]
    IN  IF self.cls = "MongoDatabaseManager" /\ self.mongodb_available
        THEN [self EXCEPT !.now = now, !.messages = Append(@, message_data),
                          !.conversations = upsert_conversation(@, username, conversation_id, now)]
        ELSE [self EXCEPT !.now = now, !.messages = Append(@, message_data)]

(* sorted(messages, key=timestamp) and sort('timestamp', 1): ascending,   *)
(* equal timestamps in insertion order.                                   *)
RECURSIVE sorted_by_timestamp(_)
sorted_by_timestamp(messages) ==
    IF messages = <<>> THEN <<>>
    ELSE LET rest == sorted_by_timestamp(SubSeq(messages, 1, Len(messages) - 1))
             msg == messages[Len(messages)]
             before == SelectSeq(rest, LAMBDA other : other.timestamp <= msg.timestamp)
             after == SelectSeq(rest, LAMBDA other : other.timestamp > msg.timestamp)
         IN  before \o <<msg>> \o after

(* cursor.limit(limit): the first `limit` documents *)
cursor_limit(messages, limit) ==
    SubSeq(messages, 1, IF Len(messages) < limit THEN Len(messages) ELSE limit)

(* messages[-limit:]: the last `limit` elements, for limit > 0 *)
last_slice(messages, limit) ==
    SubSeq(messages, IF Len(messages) < limit THEN 1 ELSE Len(messages) - limit + 1,
           Len(messages))

(* get_conversation_history(username, conversation_id, limit).            *)
(* SimpleDatabaseManager takes no limit and returns []; the fallback of   *)
(* MongoDatabaseManager is called with the limit as a third argument,     *)
(* outside of any try block.                                              *)
get_conversation_history(self, username, conversation_id, limit) ==
    LET found == sorted_by_timestamp(
                    SelectSeq(self.messages, LAMBDA msg : Of(username, conversation_id, msg)))
    IN  IF self.cls = "DatabaseManager"
        THEN [raised |-> FALSE, error |-> "",
              messages |-> IF self.mongodb_available THEN cursor_limit(found, limit)
                           ELSE last_slice(found, limit)]
        ELSE IF self.cls = "MongoDatabaseManager"
        THEN IF self.mongodb_available
             THEN [raised |-> FALSE, error |-> "", messages |-> cursor_limit(found, limit)]
             ELSE [raised |-> TRUE, error |-> TYPE_ERROR, messages |-> <<>>]
        ELSE [raised |-> FALSE, error |-> "", messages |-> <<>>]

(* create_conversation with a conversation_id given.  SimpleDatabaseManager *)
(* stores nothing; the unique index of MongoDatabaseManager refuses a     *)
(* second document for the same pair, which the method swallows.          *)
create_conversation(self, username, conversation_id) ==
    LET now == self.now + 1
        conversation_data == [username |-> username, conversation_id |-> conversation_id,
                              created_at |-> now, updated_at |-> now]
    IN  IF self.cls = "DatabaseManager"
        THEN [self EXCEPT !.now = now, !.conversations = Append(@, conversation_data)]
        ELSE IF self.cls = "MongoDatabaseManager" /\ self.mongodb_available
        THEN IF \E i \in 1..Len(self.conversations) :
                   Of(username, conversation_id, self.conversations[i])
             THEN [self EXCEPT !.now = now]
             ELSE [self EXCEPT !.now = now, !.conversations = Append(@, conversation_data)]
        ELSE self

(* delete_one: the first matching document goes *)
delete_one(conversations, username, conversation_id) ==
    IF \E i \in 1..Len(conversations) : Of(username, conversation_id, conversations[i])
    THEN LET at == CHOOSE j \in 1..Len(conversations) :
                      /\ Of(username, conversation_id, conversations[j])
                      /\ \A k \in 1..(j - 1) : ~Of(username, conversation_id, conversations[k])
         IN  SubSeq(conversations, 1, at - 1) \o SubSeq(conversations, at + 1, Len(conversations))
    ELSE conversations

(* delete_conversation(username, conversation_id).  SimpleDatabaseManager *)
(* only returns True.                                                     *)
delete_conversation(self, username, conversation_id) ==
    IF self.cls = "DatabaseManager"
    THEN [self EXCEPT
            !.messages = SelectSeq(@, LAMBDA msg : ~Of(username, conversation_id, msg)),
            !.conversations =
                IF self.mongodb_available THEN delete_one(@, username, conversation_id)
                ELSE SelectSeq(@, LAMBDA conv : ~Of(username, conversation_id, conv))]
    ELSE IF self.cls = "MongoDatabaseManager" /\ self.mongodb_available
    THEN [self EXCEPT
            !.messages = SelectSeq(@, LAMBDA msg : ~Of(username, conversation_id, msg)),
            !.conversations = delete_one(@, username, conversation_id)]
    ELSE self

-----------------------------------------------------------------------------
(* UserHistoryManager of src/history.py over its SQLite tables.  A table  *)
(* is the sequence of its rows in rowid order; `now` is CURRENT_TIMESTAMP, *)
(* which has a resolution of one second.                                  *)

ATTRIBUTE_ERROR == "AttributeError"

(* The attributes class Config of src/config.py defines. *)
ConfigAttributes ==
    {"GOOGLE_API_KEY", "GEMINI_API_KEY", "MODEL_NAME", "EMBEDDING_MODEL", "LLM_TEMPERATURE",
     "MAX_TOKENS", "MONGODB_URI", "DATABASE_NAME", "CHUNK_SIZE", "CHUNK_OVERLAP", "TOP_K",
     "SECRET_KEY", "MAX_FILE_SIZE", "ALLOWED_EXTENSIONS"}

Questions == {"q1", "q2"}

Answers == {"a1"}

ConversationRows == {1, 2}

(* __init__ on a new database file: create_tables, and a migration that   *)
(* finds nothing to migrate.                                              *)
NewHistoryManager ==
    [conversations |-> <<>>, messages |-> <<>>, lastrowid |-> 0, message_rows |-> 0, now |-> 0]

(* create_conversation: Config.TIMEZONE is read at line 130 (and at 127    *)
(* without a title) before the INSERT.                                    *)
hm_create_conversation(self, username, title) ==
    IF "TIMEZONE" \notin ConfigAttributes
    THEN [self |-> self, raised |-> TRUE, error |-> ATTRIBUTE_ERROR, ret |-> 0]
    ELSE [self |-> [self EXCEPT !.lastrowid = @ + 1,
                                !.conversations =
                                    Append(@, [id |-> self.lastrowid + 1, username |-> username,
                                               title |-> title, created_at |-> self.now,
                                               updated_at |-> self.now])],
          raised |-> FALSE, error |-> "", ret |-> self.lastrowid + 1]

(* save_message: the INSERT into messages, then the UPDATE of updated_at *)
hm_save_message(self, conversation_id, role, content) ==
    [self EXCEPT
        !.message_rows = @ + 1,
        !.messages = Append(@, [id |-> self.message_rows + 1, conversation_id |-> conversation_id,
                                role |-> role, content |-> content, timestamp |-> self.now]),
        !.conversations = [i \in 1..Len(self.conversations) |->
                             IF self.conversations[i].id = conversation_id
                             THEN [self.conversations[i] EXCEPT !.updated_at = self.now]
                             ELSE self.conversations[i]]]

(* get_conversation_messages: ORDER BY timestamp ASC *)
hm_get_conversation_messages(self, conversation_id) ==
    sorted_by_timestamp(
        SelectSeq(self.messages, LAMBDA msg : msg.conversation_id = conversation_id))

(* delete_conversation(conversation_id) *)
hm_delete_conversation(self, conversation_id) ==
    [self EXCEPT
        !.messages = SelectSeq(@, LAMBDA msg : msg.conversation_id /= conversation_id),
        !.conversations = SelectSeq(@, LAMBDA conv : conv.id /= conversation_id)]

(* SELECT id ... WHERE username=? ORDER BY updated_at DESC LIMIT 1: the    *)
(* rows of the user with the latest updated_at; 0 stands for no row.      *)
latest_conversations(self, username) ==
    {self.conversations[i].id : i \in
        {i \in 1..Len(self.conversations) :
            /\ self.conversations[i].username = username
            /\ \A j \in 1..Len(self.conversations) :
                  self.conversations[j].username = username
                  => self.conversations[j].updated_at <= self.conversations[i].updated_at}}

(* save_history with `conversation_id` the row the SELECT returned *)
hm_save_history(self, conversation_id, username, question, answer) ==
    IF conversation_id = 0
    THEN LET created == hm_create_conversation(self, username, "Default Conversation")
         IN  IF created.raised
             THEN [self |-> self, raised |-> TRUE, error |-> created.error]
             ELSE [self |-> hm_save_message(
                               hm_save_message(created.self, created.ret, "user", question),
                               created.ret, "assistant", answer),
                   raised |-> FALSE, error |-> ""]
    ELSE [self |-> hm_save_message(hm_save_message(self, conversation_id, "user", question),
                                   conversation_id, "assistant", answer),
          raised |-> FALSE, error |-> ""]

(* The loop of lines 224-230 over the messages from message i on; user_msg *)
(* is <<>> for None.                                                      *)
RECURSIVE legacy_format(_, _, _)
legacy_format(messages, i, user_msg) ==
    IF i > Len(messages) THEN <<>>
    ELSE IF messages[i].role = "user"
    THEN legacy_format(messages, i + 1, <<messages[i].content, messages[i].timestamp>>)
    ELSE IF messages[i].role = "assistant" /\ user_msg /= <<>>
    THEN <<<<user_msg[1], messages[i].content, user_msg[2]>>>>
         \o legacy_format(messages, i + 1, <<>>)
    ELSE legacy_format(messages, i + 1, user_msg)

(* fetch_history with `conversation_id` the row the SELECT returned *)
hm_fetch_history(self, conversation_id, limit) ==
    IF conversation_id = 0 THEN <<>>
    ELSE last_slice(legacy_format(hm_get_conversation_messages(self, conversation_id), 1, <<>>),
                    limit)

-----------------------------------------------------------------------------
(* The application serving one request at a time *)


(* AIManager.__init__ with both models loaded; no request served yet. *)
Init ==
    /\ session = [s \in Sessions |-> NoSession]
    /\ ai_manager = [gemini_available |-> TRUE, embeddings_available |-> TRUE,
                     document_chunks |-> <<>>, embeddings |-> None, faiss_index |-> None]
    /\ uploads = {}
    /\ last = NoCall
    /\ upload_thread = Idle
    /\ embedding_manager = NoManager
    /\ chat_manager = NoChatManager
    /\ chunk_args = DefaultArgs
    /\ db_manager = NewManagers
    /\ history_manager = NewHistoryManager
    /\ requests = 0

(* A request is served while the request budget lasts. *)
Served(handler) ==
    /\ requests < MaxRequests
    /\ requests' = requests + 1
    /\ handler

Next ==
    \/ \E s \in Sessions, cred \in Credentials : Served(login(s, cred))
    \/ \E s \in Sessions : Served(logout(s))
    \/ \E s \in Sessions, files \in Batches : Served(upload(s, files))
    \/ \E s \in Sessions : Served(chat_message(s))
    \/ \E s \in Sessions : Served(remove_file(s))
    \/ \E s \in Sessions : Served(clear_files(s))
    \/ \E s \in Sessions : Served(new_conversation(s))
    \/ \E s \in Sessions : Served(clear_conversation(s))

Spec == Init /\ [][Next]_vars

-----------------------------------------------------------------------------
(* The two managers called directly, as their unit tests would *)

DocumentLists ==
    {<<>>, create_text_chunks(PdfPieces("a.pdf"), "a.pdf"),
     create_text_chunks(PdfPieces("b.pdf"), "b.pdf"),
     create_text_chunks(PdfPieces("a.pdf"), "a.pdf")
        \o create_text_chunks(PdfPieces("b.pdf"), "b.pdf")}

call_create_embeddings(document_chunks, fault) ==
    LET ce == create_embeddings(ai_manager, document_chunks, fault)
    IN  /\ ai_manager' = ce.self
        /\ last' = [NoCall EXCEPT !.op = "AIManager.create_embeddings",
                                  !.success = ce.ret, !.embedding_success = ce.ret,
                                  !.encode_calls = ce.encode_calls,
                                  !.fault = fault,
                                  !.total_chunks = Len(document_chunks)]
        /\ UNCHANGED <<session, uploads, upload_thread, embedding_manager, chat_manager, chunk_args, db_manager, history_manager, requests>>

call_search_similar_documents(query, k, fault) ==
    LET found == search_similar_documents(ai_manager, query, k, fault)
    IN  /\ last' = [NoCall EXCEPT !.op = "AIManager.search_similar_documents",
                                  !.success = TRUE, !.query = query, !.k = k,
                                  !.fault = fault, !.docs = found.docs,
                                  !.encode_calls = found.encode_calls,
                                  !.search_calls = found.search_calls]
        /\ UNCHANGED <<session, ai_manager, uploads, upload_thread, embedding_manager, chat_manager, chunk_args, db_manager, history_manager, requests>>

call_em_create_embeddings(documents, fault) ==
    LET ce == em_create_embeddings(embedding_manager, documents, fault)
    IN  /\ embedding_manager' = ce.self
        /\ last' = [NoCall EXCEPT !.op = "EmbeddingManager.create_embeddings",
                                  !.success = ce.ret, !.embedding_success = ce.ret,
                                  !.fault = fault,
                                  !.total_chunks = Len(documents)]
        /\ UNCHANGED <<session, ai_manager, uploads, upload_thread, chat_manager, chunk_args, db_manager, history_manager, requests>>

call_em_search(query, fault) ==
    LET found == em_search(embedding_manager, query, fault)
    IN  /\ last' = [NoCall EXCEPT !.op = "EmbeddingManager.search",
                                  !.success = TRUE, !.query = query, !.k = TOP_K,
                                  !.fault = fault, !.docs = found.docs,
                                  !.encode_calls = found.encode_calls,
                                  !.search_calls = found.search_calls]
        /\ UNCHANGED <<session, ai_manager, uploads, upload_thread, embedding_manager, chat_manager, chunk_args, db_manager, history_manager, requests>>

NextAPI ==
    \/ \E d \in DocumentLists, fault \in Faults : call_create_embeddings(d, fault)
    \/ \E query \in Queries, k \in 1..TOP_K, fault \in SearchFaults :
          call_search_similar_documents(query, k, fault)
    \/ \E d \in DocumentLists, fault \in EMFaults : call_em_create_embeddings(d, fault)
    \/ \E query \in Queries, fault \in SearchFaults : call_em_search(query, fault)

SpecAPI == Init /\ [][NextAPI]_vars

-----------------------------------------------------------------------------
(* Two requests in flight: the development server app.run starts handles   *)
(* each request in a thread of its own, and ai_manager is shared.  One     *)
(* upload request runs line by line through create_embeddings while the    *)
(* other handlers run in between.  The session of the upload request is    *)
(* the copy it loaded from its cookie, written back with its response.     *)

upload_begin(s, files) ==
    /\ upload_thread.pc = "idle"
    /\ session[s].username /= NoUser
    /\ files /= <<>>
    /\ Len(session[s].uploaded_files) + Readable(files) <= MaxUploaded
    /\ LET acc == upload_loop(files)
       IN  /\ uploads' = acc.uploads
           /\ upload_thread' =
                [pc |-> IF acc.all_document_chunks /= <<>> THEN "encode" ELSE "session",
                 sid |-> s, snapshot |-> session[s],
                 processed_files |-> acc.processed_files, errors |-> acc.errors,
                 chunks |-> acc.all_document_chunks, embeddings |-> <<>>]
    /\ UNCHANGED <<session, ai_manager, last, embedding_manager, chat_manager, chunk_args, db_manager, history_manager>>

(* line 162 *)
upload_encode ==
    /\ upload_thread.pc = "encode"
    /\ upload_thread' =
         [upload_thread EXCEPT !.pc = "new_index",
            !.embeddings = encode_all([i \in 1..Len(upload_thread.chunks) |->
                                          upload_thread.chunks[i].page_content])]
    /\ UNCHANGED <<session, ai_manager, uploads, last, embedding_manager, chat_manager, chunk_args, db_manager, history_manager, requests>>

(* line 166 *)
upload_new_index ==
    /\ upload_thread.pc = "new_index"
    /\ ai_manager' = new_index(ai_manager)
    /\ upload_thread' = [upload_thread EXCEPT !.pc = "add"]
    /\ UNCHANGED <<session, uploads, last, embedding_manager, chat_manager, chunk_args, db_manager, history_manager, requests>>

(* line 167 *)
upload_add ==
    /\ upload_thread.pc = "add"
    /\ ai_manager' = index_add(ai_manager, upload_thread.embeddings)
    /\ upload_thread' = [upload_thread EXCEPT !.pc = "store_chunks"]
    /\ UNCHANGED <<session, uploads, last, embedding_manager, chat_manager, chunk_args, db_manager, history_manager, requests>>

(* line 170 *)
upload_store_chunks ==
    /\ upload_thread.pc = "store_chunks"
    /\ ai_manager' = store_chunks(ai_manager, upload_thread.chunks)
    /\ upload_thread' = [upload_thread EXCEPT !.pc = "store_embeddings"]
    /\ UNCHANGED <<session, uploads, last, embedding_manager, chat_manager, chunk_args, db_manager, history_manager, requests>>

(* line 171 *)
upload_store_embeddings ==
    /\ upload_thread.pc = "store_embeddings"
    /\ ai_manager' = store_embeddings(ai_manager, upload_thread.embeddings)
    /\ upload_thread' = [upload_thread EXCEPT !.pc = "session"]
    /\ UNCHANGED <<session, uploads, last, embedding_manager, chat_manager, chunk_args, db_manager, history_manager, requests>>

(* lines 412-436 *)
upload_respond ==
    /\ upload_thread.pc = "session"
    /\ session' = IF upload_thread.processed_files /= <<>>
                  THEN [session EXCEPT ![upload_thread.sid] =
                          [upload_thread.snapshot EXCEPT
                             !.uploaded_files = @ \o upload_thread.processed_files]]
                  ELSE session
    /\ last' = upload_result(upload_thread.sid,
                             [processed_files |-> upload_thread.processed_files,
                              errors |-> upload_thread.errors,
                              all_document_chunks |-> upload_thread.chunks],
                             upload_thread.chunks /= <<>>)
    /\ upload_thread' = Idle
    /\ UNCHANGED <<ai_manager, uploads, embedding_manager, chat_manager, chunk_args, db_manager, history_manager, requests>>

NextConc ==
    \/ \E s \in Sessions, cred \in Credentials : Served(login(s, cred))
    \/ \E s \in Sessions, files \in Batches : Served(upload_begin(s, files))
    \/ upload_encode
    \/ upload_new_index
    \/ upload_add
    \/ upload_store_chunks
    \/ upload_store_embeddings
    \/ upload_respond
    \/ \E s \in Sessions : Served(chat_message(s))
    \/ \E s \in Sessions : Served(clear_files(s))

SpecConc == Init /\ [][NextConc]_vars

-----------------------------------------------------------------------------
(* The application started with or without its models: AIManager.__init__ *)
(* sets gemini_available by the API key and the model construction, and   *)
(* embeddings_available by the load of the sentence transformer.          *)

InitAnyModels ==
    /\ session = [s \in Sessions |-> NoSession]
    /\ \E gemini_available \in BOOLEAN, embeddings_available \in BOOLEAN :
          ai_manager = [gemini_available |-> gemini_available,
                        embeddings_available |-> embeddings_available,
                        document_chunks |-> <<>>, embeddings |-> None, faiss_index |-> None]
    /\ uploads = {}
    /\ last = NoCall
    /\ upload_thread = Idle
    /\ embedding_manager = NoManager
    /\ chat_manager = NoChatManager
    /\ chunk_args = DefaultArgs
    /\ db_manager = NewManagers
    /\ history_manager = NewHistoryManager
    /\ requests = 0

(* One browser talking to the application. *)
Browser == "A"

NextTurns ==
    \/ \E cred \in Credentials : Served(login(Browser, cred))
    \/ \E files \in Batches : Served(upload(Browser, files))
    \/ Served(chat_message(Browser))
    \/ Served(new_conversation(Browser))

SpecTurns == InitAnyModels /\ [][NextTurns]_vars

(* The managers called directly, whichever models __init__ could load. *)
SpecAPIAnyModels == InitAnyModels /\ [][NextAPI]_vars

-----------------------------------------------------------------------------
(* Uploads of every kind of file, and PDFProcessor called directly *)

UploadNames == {"a.pdf", "b.pdf", "n.txt", "e.pdf", "x.pdf", "s.pdf", "w.pdf", "c.pdf"}

(* Lists of one or two files of any kind, and a file of each kind between *)
(* two readable PDFs.                                                     *)
UploadBatches ==
    {<<f>> : f \in UploadNames} \cup {<<f, g>> : f \in UploadNames, g \in UploadNames}
    \cup {<<"a.pdf", f, "b.pdf">> : f \in UploadNames \ {"a.pdf", "b.pdf"}}

call_process_pdf(f) ==
    LET r == process_pdf(f)
    IN  /\ last' = [NoCall EXCEPT !.op = "PDFProcessor.process_pdf", !.success = ~r.raised,
                                  !.raised = r.raised, !.message = r.error,
                                  !.files = <<f>>, !.passed = r.documents,
                                  !.total_chunks = Len(r.documents)]
        /\ UNCHANGED <<session, ai_manager, uploads, upload_thread, embedding_manager,
                       chat_manager, chunk_args, db_manager, history_manager, requests>>

NextUpload ==
    \/ \E cred \in Credentials : Served(login(Browser, cred))
    \/ \E files \in UploadBatches : Served(upload(Browser, files))
    \/ Served(clear_files(Browser))
    \/ \E f \in UploadNames \ {"n.txt"} : call_process_pdf(f)

SpecUpload == Init /\ [][NextUpload]_vars

-----------------------------------------------------------------------------
(* The response generators called directly *)

AllChunks ==
    create_text_chunks(PdfPieces("a.pdf"), "a.pdf") \o create_text_chunks(PdfPieces("b.pdf"), "b.pdf")

(* What a retriever hands to the generator: no document, or up to TOP_K. *)
RetrievedLists == {SubSeq(AllChunks, 1, n) : n \in 0..TOP_K}

Retrievers == {NoStore, from_documents(AllChunks)}

call_generate_response(query, relevant_docs, outcome) ==
    LET gen == generate_response(ai_manager, query, relevant_docs, outcome)
    IN  /\ last' = [NoCall EXCEPT !.op = "AIManager.generate_response", !.success = TRUE,
                                  !.query = query, !.docs = relevant_docs,
                                  !.response = gen.response, !.prompt = gen.prompt,
                                  !.generate_calls = gen.generate_calls]
        /\ UNCHANGED <<session, ai_manager, uploads, upload_thread, embedding_manager,
                       chat_manager, chunk_args, db_manager, history_manager, requests>>

call_cm_set_retriever(retriever, fault) ==
    /\ chat_manager' = cm_set_retriever(chat_manager, retriever, fault)
    /\ last' = [NoCall EXCEPT !.op = "ChatManager.set_retriever", !.success = TRUE,
                              !.fault = fault]
    /\ UNCHANGED <<session, ai_manager, uploads, upload_thread, embedding_manager, chunk_args, db_manager, history_manager, requests>>

call_cm_reset_conversation ==
    /\ chat_manager' = cm_reset_conversation(chat_manager)
    /\ last' = [NoCall EXCEPT !.op = "ChatManager.reset_conversation", !.success = TRUE]
    /\ UNCHANGED <<session, ai_manager, uploads, upload_thread, embedding_manager, chunk_args, db_manager, history_manager, requests>>

(* The memory of the chain grows by one turn per answered call. *)
call_cm_generate_response(query, context_docs, outcome) ==
    /\ chat_manager.memory < MaxTurns
    /\ LET gen == cm_generate_response(chat_manager, query, context_docs, outcome)
       IN  /\ chat_manager' = gen.self
           /\ last' = [NoCall EXCEPT !.op = "ChatManager.generate_response", !.success = TRUE,
                                     !.query = query, !.docs = context_docs,
                                     !.response = gen.response, !.prompt = gen.prompt,
                                     !.generate_calls = gen.generate_calls]
    /\ UNCHANGED <<session, ai_manager, uploads, upload_thread, embedding_manager, chunk_args, db_manager, history_manager, requests>>

NextGen ==
    \/ \E query \in Queries, relevant_docs \in RetrievedLists, outcome \in Outcomes :
          call_generate_response(query, relevant_docs, outcome)
    \/ \E retriever \in Retrievers, fault \in CMFaults : call_cm_set_retriever(retriever, fault)
    \/ call_cm_reset_conversation
    \/ \E query \in Queries, context_docs \in RetrievedLists, outcome \in Outcomes :
          call_cm_generate_response(query, context_docs, outcome)

SpecGen == InitAnyModels /\ [][NextGen]_vars

-----------------------------------------------------------------------------
(* The chunker called directly on every short text *)

Alphabet == {"a", "b", " ", "\n"}

Texts == UNION {[1..n -> Alphabet] : n \in 0..MaxText}

ChunkSizes == 1..MaxSize

ChunkOverlaps == 0..MaxSize

(* A text and a configuration, then the calls on them. *)
InitChunker ==
    /\ session = [s \in Sessions |-> NoSession]
    /\ ai_manager = [gemini_available |-> TRUE, embeddings_available |-> TRUE,
                     document_chunks |-> <<>>, embeddings |-> None, faiss_index |-> None]
    /\ uploads = {}
    /\ last = NoCall
    /\ upload_thread = Idle
    /\ embedding_manager = NoManager
    /\ chat_manager = NoChatManager
    /\ \E text \in Texts, chunk_size \in ChunkSizes, chunk_overlap \in ChunkOverlaps :
          chunk_args = [text |-> text, chunk_size |-> chunk_size,
                        chunk_overlap |-> chunk_overlap]
    /\ db_manager = NewManagers
    /\ history_manager = NewHistoryManager
    /\ requests = 0

call_create_text_chunks(filename) ==
    LET r == create_text_chunks_with(chunk_args.text, filename, chunk_args.chunk_size,
                                     chunk_args.chunk_overlap)
    IN  /\ last' = [NoCall EXCEPT !.op = "create_text_chunks", !.success = ~r.raised,
                                  !.raised = r.raised, !.files = <<filename>>,
                                  !.text = chunk_args.text,
                                  !.chunk_size = chunk_args.chunk_size,
                                  !.chunk_overlap = chunk_args.chunk_overlap,
                                  !.chunks = r.chunks, !.passed = r.documents,
                                  !.total_chunks = Len(r.documents)]
        /\ UNCHANGED <<session, ai_manager, uploads, upload_thread, embedding_manager,
                       chat_manager, chunk_args, db_manager, history_manager, requests>>

call_create_document_chunks(filename) ==
    LET r == create_document_chunks_with(chunk_args.text, filename, chunk_args.chunk_size,
                                         chunk_args.chunk_overlap)
    IN  /\ last' = [NoCall EXCEPT !.op = "PDFProcessor.create_document_chunks",
                                  !.success = ~r.raised,
                                  !.raised = r.raised, !.files = <<filename>>,
                                  !.text = chunk_args.text,
                                  !.chunk_size = chunk_args.chunk_size,
                                  !.chunk_overlap = chunk_args.chunk_overlap,
                                  !.chunks = r.chunks, !.passed = r.documents,
                                  !.total_chunks = Len(r.documents)]
        /\ UNCHANGED <<session, ai_manager, uploads, upload_thread, embedding_manager,
                       chat_manager, chunk_args, db_manager, history_manager, requests>>

NextChunker ==
    \/ call_create_text_chunks("a.pdf")
    \/ call_create_document_chunks("a.pdf")

SpecChunker == InitChunker /\ [][NextChunker]_vars

-----------------------------------------------------------------------------
(* The database managers called directly, every class on the same calls *)

Others == <<session, ai_manager, uploads, upload_thread, embedding_manager, chat_manager,
            chunk_args, requests>>

call_save_conversation_message(username, conversation_id, role, content) ==
    /\ \A m \in Managers : db_manager[m].now < MaxSaves
    /\ db_manager' = [m \in Managers |->
                        save_conversation_message(db_manager[m], username, conversation_id,
                                                  role, content)]
    /\ last' = [NoCall EXCEPT !.op = "save_conversation_message", !.success = TRUE,
                              !.username = username, !.conversation_id = conversation_id]
    /\ UNCHANGED <<Others, history_manager>>

call_get_conversation_history(username, conversation_id, limit) ==
    /\ last' = [NoCall EXCEPT !.op = "get_conversation_history", !.success = TRUE,
                              !.username = username, !.conversation_id = conversation_id,
                              !.limit = limit,
                              !.returned =
                                  [m \in Managers |->
                                      get_conversation_history(db_manager[m], username,
                                                               conversation_id, limit)]]
    /\ UNCHANGED <<Others, db_manager, history_manager>>

call_create_conversation(username, conversation_id) ==
    /\ \A m \in Managers : db_manager[m].now < MaxSaves
    /\ db_manager' = [m \in Managers |->
                        create_conversation(db_manager[m], username, conversation_id)]
    /\ last' = [NoCall EXCEPT !.op = "create_conversation", !.success = TRUE,
                              !.username = username, !.conversation_id = conversation_id]
    /\ UNCHANGED <<Others, history_manager>>

call_delete_conversation(username, conversation_id) ==
    /\ db_manager' = [m \in Managers |->
                        delete_conversation(db_manager[m], username, conversation_id)]
    /\ last' = [NoCall EXCEPT !.op = "delete_conversation", !.success = TRUE,
                              !.username = username, !.conversation_id = conversation_id]
    /\ UNCHANGED <<Others, history_manager>>

NextDB ==
    \/ \E username \in Usernames, conversation_id \in ConversationIds, role \in Roles :
          call_save_conversation_message(username, conversation_id, role, "hi")
    \/ \E username \in Usernames, conversation_id \in ConversationIds, limit \in Limits :
          call_get_conversation_history(username, conversation_id, limit)
    \/ \E username \in Usernames, conversation_id \in ConversationIds :
          call_create_conversation(username, conversation_id)
    \/ \E username \in Usernames, conversation_id \in ConversationIds :
          call_delete_conversation(username, conversation_id)

SpecDB == Init /\ [][NextDB]_vars

-----------------------------------------------------------------------------
(* UserHistoryManager called directly; the clock may pass a second before *)
(* a call.                                                                *)

Ticks == {0, 1}

call_hm_create_conversation(username) ==
    \E r \in {hm_create_conversation(history_manager, username, "")} :
        /\ history_manager' = r.self
        /\ last' = [NoCall EXCEPT !.op = "UserHistoryManager.create_conversation",
                                  !.success = ~r.raised, !.raised = r.raised,
                                  !.message = r.error, !.username = username]
        /\ UNCHANGED <<Others, db_manager>>

call_hm_save_message(conversation_id, role, content, tick) ==
    /\ history_manager.message_rows < MaxSaves
    /\ history_manager.now + tick <= MaxSaves
    /\ history_manager' =
          hm_save_message([history_manager EXCEPT !.now = @ + tick], conversation_id,
                          role, content)
    /\ last' = [NoCall EXCEPT !.op = "UserHistoryManager.save_message", !.success = TRUE,
                              !.conversation_id = conversation_id]
    /\ UNCHANGED <<Others, db_manager>>

call_hm_delete_conversation(conversation_id) ==
    /\ history_manager' = hm_delete_conversation(history_manager, conversation_id)
    /\ last' = [NoCall EXCEPT !.op = "UserHistoryManager.delete_conversation",
                              !.success = TRUE, !.conversation_id = conversation_id]
    /\ UNCHANGED <<Others, db_manager>>

(* The SELECT of save_history and fetch_history may return any of the     *)
(* rows that share the latest updated_at.                                 *)
Selected(username) ==
    IF latest_conversations(history_manager, username) = {} THEN {0}
    ELSE latest_conversations(history_manager, username)

call_hm_save_history(username, question, answer, tick) ==
    /\ history_manager.message_rows + 2 <= MaxSaves
    /\ history_manager.now + tick <= MaxSaves
    /\ \E conversation_id \in Selected(username) :
       \E r \in {hm_save_history([history_manager EXCEPT !.now = @ + tick], conversation_id,
                                 username, question, answer)} :
          /\ history_manager' = r.self
          /\ last' = [NoCall EXCEPT !.op = "UserHistoryManager.save_history",
                                    !.success = ~r.raised, !.raised = r.raised,
                                    !.message = r.error, !.username = username,
                                    !.conversation_id = conversation_id,
                                    !.query = question, !.response = answer]
    /\ UNCHANGED <<Others, db_manager>>

call_hm_fetch_history(username, limit) ==
    /\ \E conversation_id \in Selected(username) :
          last' = [NoCall EXCEPT !.op = "UserHistoryManager.fetch_history", !.success = TRUE,
                                 !.username = username, !.limit = limit,
                                 !.conversation_id = conversation_id,
                                 !.returned = hm_fetch_history(history_manager,
                                                               conversation_id, limit)]
    /\ UNCHANGED <<Others, db_manager, history_manager>>

NextHistory ==
    \/ \E username \in Usernames : call_hm_create_conversation(username)
    \/ \E conversation_id \in ConversationRows, role \in Roles, content \in Questions,
          tick \in Ticks :
          call_hm_save_message(conversation_id, role, content, tick)
    \/ \E conversation_id \in ConversationRows : call_hm_delete_conversation(conversation_id)
    \/ \E username \in Usernames, question \in Questions, answer \in Answers, tick \in Ticks :
          call_hm_save_history(username, question, answer, tick)
    \/ \E username \in Usernames, limit \in Limits : call_hm_fetch_history(username, limit)

SpecHistory == Init /\ [][NextHistory]_vars

-----------------------------------------------------------------------------
(* Properties *)

Range(seq) == {seq[i] : i \in 1..Len(seq)}

Count(seq, x) == Cardinality({i \in 1..Len(seq) : seq[i] = x})

Min(a, b) == IF a < b THEN a ELSE b

IndexSize == Len(ai_manager.faiss_index.xb)

(* The chunks of the files a session lists as uploaded. *)
RECURSIVE chunks_of(_)
chunks_of(uploaded_files) ==
    IF uploaded_files = <<>> THEN <<>>
    ELSE create_text_chunks(PdfPieces(Head(uploaded_files).name), Head(uploaded_files).name)
         \o chunks_of(Tail(uploaded_files))

(* The corpus holds every chunk of every file the session has uploaded. *)
HoldsAll(s) ==
    \A c \in Range(chunks_of(session[s].uploaded_files)) :
        Count(ai_manager.document_chunks, c) >= Count(chunks_of(session[s].uploaded_files), c)

(* C1: an upload whose index build succeeds, made in a session whose      *)
(* earlier uploads are all in the corpus, leaves a corpus that holds the  *)
(* chunks of all uploads of the session (cumulative, 2 + 2 = 4).          *)
C1_CorpusIsCumulative ==
    [][\A s \in Sessions :
         (requests' /= requests /\ last'.op = "upload" /\ last'.sid = s
          /\ last'.embedding_success /\ HoldsAll(s))
         => HoldsAll(s)']_vars

(* C2: a chat message of a session without uploaded files is answered     *)
(* with the fixed upload-first text and invokes neither the embedding     *)
(* model, the index search nor the generative model.                      *)
C2_EmptyStateAnswer ==
    (last.op = "chat_message" /\ last.success /\ session[last.sid].uploaded_files = <<>>)
    => /\ last.response = UPLOAD_FIRST
       /\ last.encode_calls = 0
       /\ last.search_calls = 0
       /\ last.generate_calls = 0
       /\ last.docs = <<>>

(* A chat message answered in the Empty state while the index still holds vectors. *)
C2_Witness ==
    /\ last.op = "chat_message"
    /\ last.success
    /\ session[last.sid].uploaded_files = <<>>
    /\ IndexSize > 0
    /\ last.response = UPLOAD_FIRST

(* C3: after clear_files the index holds no vectors and the chunk list is empty. *)
C3_ClearDiscardsIndex ==
    (last.op = "clear_files" /\ last.success)
    => /\ ai_manager.document_chunks = <<>>
       /\ IndexSize = 0

(* What a query of session s retrieves. *)
Retrieved(s, query) ==
    IF session[s].uploaded_files = <<>> THEN <<>>
    ELSE search_similar_documents(ai_manager, query, TOP_K, "none").docs

(* C4: an upload, clear or query of one session leaves unchanged what a   *)
(* query of every other session retrieves.                                *)
C4_SessionsAreIsolated ==
    [][\A a \in Sessions, query \in Queries :
         (requests' /= requests /\ last'.sid /= a
          /\ last'.op \in {"upload", "clear_files", "chat_message"})
         => Retrieved(a, query)' = Retrieved(a, query)]_vars

(* C5: a search for k results on an index of n < k vectors returns n      *)
(* results, each an indexed chunk counted once.                           *)
C5_FewerThanK ==
    (last.op = "chat_message" /\ last.search_calls = 1 /\ last.fault = "none"
     /\ IndexSize < last.k)
    => /\ Len(last.docs) = IndexSize
       /\ \A c \in Range(last.docs) :
            Count(last.docs, c) <= Count(ai_manager.document_chunks, c)

(* The min(k, n) chunks nearest to the query, nearest first, ties by position. *)
Nearest(self, xq, k) ==
    [p \in 1..Min(k, Len(self.faiss_index.xb)) |->
        self.document_chunks[CHOOSE i \in 1..Len(self.faiss_index.xb) :
                                Rank(self.faiss_index.xb, xq, i) = p]]

(* C6: a search returns the min(k, n) nearest chunks in non-decreasing    *)
(* distance order, ties in insertion order.                               *)
C6_NearestInOrder ==
    (last.op = "AIManager.search_similar_documents" /\ last.search_calls = 1
     /\ last.fault = "none")
    => last.docs = Nearest(ai_manager, encode(last.query), last.k)

(* C7: the index holds one vector per chunk, the i-th vector being the    *)
(* embedding of the i-th chunk.                                           *)
C7_IndexAlignedWithChunks ==
    /\ IndexSize = Len(ai_manager.document_chunks)
    /\ \A i \in 1..IndexSize :
         ai_manager.faiss_index.xb[i] = encode(ai_manager.document_chunks[i].page_content)

(* C8: no search runs between the assignment of the new index (line 166)  *)
(* and the assignment of the new chunk list (line 170).                   *)
C8_NoSearchDuringRebuild ==
    [][(requests' /= requests /\ last'.op = "chat_message" /\ last'.search_calls = 1)
       => upload_thread.pc \notin {"add", "store_chunks"}]_vars

(* C9: a create_embeddings call that fails leaves the manager as it was,  *)
(* for AIManager and for EmbeddingManager.                                *)
C9_FailedRebuildChangesNothing ==
    [][/\ (last'.op = "AIManager.create_embeddings" /\ ~last'.success)
          => ai_manager' = ai_manager
       /\ (last'.op = "EmbeddingManager.create_embeddings" /\ ~last'.success)
          => embedding_manager' = embedding_manager]_vars

(* C10: retrieval without an index returns the empty sequence, raises     *)
(* nothing and does not call the embedding model, in both managers.       *)
C10_NoIndexNoResults ==
    /\ (last.op = "AIManager.search_similar_documents" /\ ai_manager.faiss_index.isNone)
       => (last.docs = <<>> /\ last.encode_calls = 0 /\ last.search_calls = 0 /\ ~last.raised)
    /\ (last.op = "EmbeddingManager.search" /\ embedding_manager.vectorstore.isNone)
       => (last.docs = <<>> /\ last.encode_calls = 0 /\ last.search_calls = 0 /\ ~last.raised)

(* A search of AIManager made before any index was built. *)
C10_Witness ==
    /\ last.op = "AIManager.search_similar_documents"
    /\ ai_manager.faiss_index.isNone
    /\ ai_manager.embeddings_available
    /\ last.docs = <<>>

(* C11: a chat request of an authenticated session with a non-empty       *)
(* message succeeds and appends to the history of the session exactly the *)
(* user message and one assistant message holding the response, which is  *)
(* the answer or a placeholder, whatever search and generation did.       *)
C11_TurnIsRecorded ==
    [][\A s \in Sessions :
         (requests' /= requests /\ last'.op = "chat_message" /\ last'.sid = s
          /\ session[s].username /= NoUser /\ last'.query /= "")
         => /\ last'.success
            /\ Len(session'[s].messages) = Len(session[s].messages) + 2
            /\ SubSeq(session'[s].messages, 1, Len(session[s].messages)) = session[s].messages
            /\ LET n == Len(session[s].messages)
               IN  /\ session'[s].messages[n + 1].role = "user"
                   /\ session'[s].messages[n + 1].content = last'.query
                   /\ session'[s].messages[n + 2].role = "assistant"
                   /\ session'[s].messages[n + 2].content = last'.response
                   /\ last'.response \in {ANSWER, UNAVAILABLE, GENERATION_ERROR, UPLOAD_FIRST}]_vars

(* A turn recorded with a placeholder: the generation failed or the model *)
(* is not configured, after a search that failed or found nothing.        *)
C11_Witness ==
    /\ last.op = "chat_message"
    /\ last.success
    /\ last.response \in {UNAVAILABLE, GENERATION_ERROR}
    /\ last.docs = <<>>
    /\ Len(session[last.sid].messages) = 2
    /\ session[last.sid].messages[2].content = last.response

(* The files of a batch that give no chunks, in the order of the batch. *)
Failing(files) == SelectSeq(files, LAMBDA f : FileKind(f) /= "text")

(* The chunks of the readable files of a batch, in the order of the batch. *)
RECURSIVE ChunksOfBatch(_)
ChunksOfBatch(files) ==
    IF files = <<>> THEN <<>>
    ELSE (IF FileKind(Head(files)) = "text"
          THEN create_text_chunks(PdfPieces(Head(files)), Head(files)) ELSE <<>>)
         \o ChunksOfBatch(Tail(files))

(* C12: an upload collects one error for each file of the batch that      *)
(* fails, in the order of the batch, and passes the chunks of all the     *)
(* other files to create_embeddings, wherever the failing files stand.    *)
C12_BatchSurvivesFailures ==
    (last.op = "upload" /\ last.files /= <<>>)
    => /\ Len(last.errors) = Len(Failing(last.files))
       /\ \A i \in 1..Len(last.errors) : last.errors[i][1] = Failing(last.files)[i]
       /\ last.passed = ChunksOfBatch(last.files)
       /\ last.total_chunks = Len(ChunksOfBatch(last.files))

(* A batch with a failing file between two readable ones: one error, and  *)
(* the chunks of both readable files indexed.                             *)
C12_Witness ==
    /\ last.op = "upload"
    /\ Len(last.files) = 3
    /\ FileKind(last.files[2]) \in {"broken", "scan", "empty", "unchunkable", "notpdf"}
    /\ Len(last.errors) = 1
    /\ Len(last.passed) = 5
    /\ last.embedding_success
    /\ ai_manager.document_chunks = last.passed

NoTextKinds == {"scan", "blank"}

(* C17: a PDF whose extraction gives no text or only whitespace is        *)
(* rejected with the no-text outcome, a PDF the reader fails on with the  *)
(* error outcome, the two being different; no chunk of either is passed   *)
(* to the index or held by the corpus, and neither is listed among the    *)
(* uploaded files of the session.  The same for PDFProcessor.process_pdf. *)
C17_NoTextIsNotAnError ==
    /\ (last.op = "upload" /\ last.files /= <<>>)
       => \A i \in 1..Len(last.files) :
            LET f == last.files[i]
            IN  /\ FileKind(f) \in NoTextKinds
                   => /\ <<f, "No text could be extracted">> \in Range(last.errors)
                      /\ <<f, "Error processing">> \notin Range(last.errors)
                /\ FileKind(f) = "broken"
                   => /\ <<f, "Error processing">> \in Range(last.errors)
                      /\ <<f, "No text could be extracted">> \notin Range(last.errors)
                /\ FileKind(f) \in NoTextKinds \cup {"broken"}
                   => /\ \A c \in Range(last.passed) \cup Range(ai_manager.document_chunks) :
                            c.source /= f
                      /\ \A j \in 1..Len(session[last.sid].uploaded_files) :
                            session[last.sid].uploaded_files[j].name /= f
    /\ (last.op = "PDFProcessor.process_pdf")
       => LET f == last.files[1]
          IN  /\ FileKind(f) \in NoTextKinds
                 => (last.raised /\ last.message = NO_TEXT /\ last.passed = <<>>)
              /\ FileKind(f) = "broken"
                 => (last.raised /\ last.message = READ_ERROR /\ last.passed = <<>>)
              /\ READ_ERROR /= NO_TEXT

(* A batch of a whitespace-only PDF and an unparseable one: two errors    *)
(* of different kinds, nothing indexed, nothing listed.                   *)
C17_Witness ==
    /\ last.op = "upload"
    /\ last.files = <<"w.pdf", "x.pdf">>
    /\ last.errors = <<<<"w.pdf", "No text could be extracted">>, <<"x.pdf", "Error processing">>>>
    /\ ~last.success
    /\ last.passed = <<>>
    /\ session[last.sid].uploaded_files = <<>>

(* C13: generate_response of an AIManager whose generative model is not   *)
(* configured returns the placeholder text, raises nothing and does not   *)
(* invoke the model.                                                      *)
C13_UnconfiguredModelPlaceholder ==
    (last.op = "AIManager.generate_response" /\ ~ai_manager.gemini_available)
    => /\ last.response = UNAVAILABLE
       /\ last.generate_calls = 0
       /\ ~last.raised
       /\ last.success

(* A call with retrieved documents answered by the placeholder. *)
C13_Witness ==
    /\ last.op = "AIManager.generate_response"
    /\ ~ai_manager.gemini_available
    /\ Len(last.docs) = TOP_K
    /\ last.response = UNAVAILABLE
    /\ last.generate_calls = 0

(* C14: a call of generate_response with a configured model invokes the   *)
(* generative model exactly once, whether the invocation fails or not,    *)
(* for AIManager and for ChatManager.                                     *)
C14_OneInvocationPerCall ==
    /\ (last.op = "AIManager.generate_response" /\ ai_manager.gemini_available)
       => last.generate_calls = 1
    /\ (last.op = "ChatManager.generate_response") => last.generate_calls = 1

(* C15: the prompt holds the text of the first CONTEXT_CHUNKS documents   *)
(* handed to the generator, in their order, and of no other.              *)
C15_PromptHoldsTopN ==
    (last.op \in {"AIManager.generate_response", "ChatManager.generate_response"}
     /\ last.prompt /= NO_PROMPT)
    => /\ Len(last.prompt.context) <= CONTEXT_CHUNKS
       /\ (chat_manager.chain.isNone \/ last.op = "AIManager.generate_response")
          => last.prompt.context =
               [i \in 1..Min(CONTEXT_CHUNKS, Len(last.docs)) |-> last.docs[i].page_content]

(* C16: a prompt built for an empty context says that no context was      *)
(* found, and has no empty context section.                               *)
C16_EmptyContextIsStated ==
    (last.op \in {"AIManager.generate_response", "ChatManager.generate_response"}
     /\ last.prompt /= NO_PROMPT /\ last.prompt.context = <<>>)
    => /\ "no_context_found" \in Range(last.prompt.parts)
       /\ "context_header" \notin Range(last.prompt.parts)

(* The state chat_message tests at line 452: Indexed while the session    *)
(* lists an uploaded file, Empty otherwise.                               *)
Indexed(s) == session[s].uploaded_files /= <<>>

(* C18: within a login, a session becomes Indexed only by an upload that  *)
(* processed a file, and once Indexed it becomes Empty again only by      *)
(* clear_files; chat messages, further uploads, remove_file and the       *)
(* conversation operations leave it Indexed.                              *)
C18_SessionStateMachine ==
    [][\A s \in Sessions :
         (requests' /= requests /\ last'.op \notin {"login", "logout"})
         => /\ (~Indexed(s) /\ Indexed(s)')
               => (last'.op = "upload" /\ last'.sid = s /\ last'.success)
            /\ (Indexed(s) /\ ~Indexed(s)')
               => (last'.op = "clear_files" /\ last'.sid = s)]_vars

ChunkerOps == {"create_text_chunks", "PDFProcessor.create_document_chunks"}

(* C19: the m documents the chunker returns for a source carry the source *)
(* and are numbered 0..m-1 in order, each with total_chunks = m.          *)
C19_SegmentsNumberedInOrder ==
    (last.op \in ChunkerOps /\ ~last.raised)
    => \A j \in 1..Len(last.passed) :
         /\ last.passed[j].source = last.files[1]
         /\ last.passed[j].chunk_id = j - 1
         /\ last.passed[j].total_chunks = Len(last.passed)

(* C20: for 0 <= chunk_overlap < chunk_size the chunker raises nothing,   *)
(* and every document it returns is stripped, not empty, and at most      *)
(* chunk_size characters long.                                            *)
C20_SegmentsWithinSize ==
    (last.op \in ChunkerOps /\ last.chunk_overlap < last.chunk_size)
    => /\ ~last.raised
       /\ \A j \in 1..Len(last.passed) :
            /\ last.passed[j].page_content /= <<>>
            /\ strip(last.passed[j].page_content) = last.passed[j].page_content
            /\ Len(last.passed[j].page_content) <= last.chunk_size

(* A text without any separator, longer than the chunk size, cut into     *)
(* overlapping chunks of characters.                                      *)
C20_Witness ==
    /\ last.op = "create_text_chunks"
    /\ last.text = <<"a", "b", "a", "b">>
    /\ last.chunk_size = 2
    /\ last.chunk_overlap = 1
    /\ Len(last.passed) = 3
    /\ last.passed[2].page_content = <<"b", "a">>

(* The chunker of the operation `last` records, on another text. *)
chunk_again(text) ==
    IF last.op = "create_text_chunks"
    THEN create_text_chunks_with(text, last.files[1], last.chunk_size, last.chunk_overlap)
    ELSE create_document_chunks_with(text, last.files[1], last.chunk_size, last.chunk_overlap)

(* C21: a text shorter than chunk_size that is not all whitespace gives   *)
(* exactly one document, whose text is the stripped input; chunking the   *)
(* text of that document again gives the same single document.            *)
C21_ShortTextOneSegment ==
    (last.op \in ChunkerOps /\ ~last.raised /\ Len(last.text) < last.chunk_size
     /\ strip(last.text) /= <<>>)
    => /\ Len(last.passed) = 1
       /\ last.passed[1].page_content = strip(last.text)
       /\ ~chunk_again(last.passed[1].page_content).raised
       /\ chunk_again(last.passed[1].page_content).documents = last.passed

(* A short text that ends in a separator: one document without it. *)
C21_Witness ==
    /\ last.op = "create_text_chunks"
    /\ last.text = <<"b", "\n">>
    /\ last.chunk_size = 3
    /\ last.chunk_overlap = 1
    /\ Len(last.passed) = 1
    /\ last.passed[1].page_content = <<"b">>

(* C22: an upload chunks its files in the order of the request and calls *)
(* create_embeddings at most once, on the chunks of all processed files   *)
(* together, which then are the corpus and the index; with no chunks it   *)
(* does not call it and the manager stays as it was.                      *)
C22_OneBuildPerBatch ==
    [][(requests' /= requests /\ last'.op = "upload" /\ last'.files /= <<>>)
       => LET chunks == ChunksOfBatch(last'.files)
          IN  /\ last'.passed = chunks
              /\ last'.encode_calls <= 1
              /\ chunks = <<>> => (last'.encode_calls = 0 /\ ai_manager' = ai_manager)
              /\ (chunks /= <<>> /\ last'.fault = "none" /\ ai_manager.embeddings_available)
                 => /\ last'.encode_calls = 1
                    /\ last'.embedding_success
                    /\ ai_manager'.document_chunks = chunks
                    /\ ai_manager'.faiss_index.xb =
                         encode_all([i \in 1..Len(chunks) |-> chunks[i].page_content])]_vars

(* A batch of two readable files indexed by one call: the chunks of the   *)
(* first file, then those of the second.                                  *)
C22_Witness ==
    /\ last.op = "upload"
    /\ last.files = <<"a.pdf", "b.pdf">>
    /\ last.encode_calls = 1
    /\ last.embedding_success
    /\ Len(ai_manager.document_chunks) = 5
    /\ ai_manager.document_chunks[1].source = "a.pdf"
    /\ ai_manager.document_chunks[5].source = "b.pdf"
    /\ IndexSize = 5

(* C23: with the embedding model not loaded, create_embeddings returns    *)
(* False and search_similar_documents returns the empty list, neither     *)
(* invokes the model nor raises, and the manager stays as it was.         *)
C23_UnavailableEmbeddings ==
    [][~ai_manager.embeddings_available
       => /\ (last'.op = "AIManager.create_embeddings")
             => (~last'.success /\ last'.encode_calls = 0 /\ ~last'.raised
                 /\ ai_manager' = ai_manager)
          /\ (last'.op = "AIManager.search_similar_documents")
             => (last'.docs = <<>> /\ last'.encode_calls = 0 /\ last'.search_calls = 0
                 /\ ~last'.raised /\ ai_manager' = ai_manager)]_vars

(* create_embeddings called with five chunks and nothing going wrong,     *)
(* refused because the model is not loaded.                               *)
C23_Witness ==
    /\ last.op = "AIManager.create_embeddings"
    /\ ~ai_manager.embeddings_available
    /\ last.total_chunks = 5
    /\ last.fault = "none"
    /\ ~last.success
    /\ last.encode_calls = 0
    /\ ai_manager.faiss_index.isNone

(* What a manager stores for other pairs than (username, conversation_id). *)
OtherDocs(docs, username, conversation_id) ==
    SelectSeq(docs, LAMBDA doc : ~Of(username, conversation_id, doc))

(* C24: after delete_conversation(username, conversation_id) a manager    *)
(* the application can run with holds no message and no conversation of   *)
(* that pair, get_conversation_history for the pair returns the empty     *)
(* list, and what it holds for every other pair is as before.             *)
C24_DeleteConversation ==
    [][(last'.op = "delete_conversation")
       => \A m \in AppManagers :
            LET u == last'.username
                c == last'.conversation_id
            IN  /\ \A i \in 1..Len(db_manager'[m].messages) :
                      ~Of(u, c, db_manager'[m].messages[i])
                /\ \A i \in 1..Len(db_manager'[m].conversations) :
                      ~Of(u, c, db_manager'[m].conversations[i])
                /\ \A limit \in Limits :
                      /\ ~get_conversation_history(db_manager'[m], u, c, limit).raised
                      /\ get_conversation_history(db_manager'[m], u, c, limit).messages = <<>>
                /\ OtherDocs(db_manager'[m].messages, u, c) = OtherDocs(db_manager[m].messages, u, c)
                /\ OtherDocs(db_manager'[m].conversations, u, c)
                      = OtherDocs(db_manager[m].conversations, u, c)]_vars

(* C25: save_history(username, question, answer) raises nothing and      *)
(* stores the question as a user message followed by the answer as an     *)
(* assistant message, in a new conversation of the user if there was      *)
(* none; fetch_history(username, limit) then returns at most `limit`      *)
(* entries, the last one holding the question and the answer.             *)
C25_SaveHistoryThenFetch ==
    (last.op = "UserHistoryManager.save_history")
    => /\ ~last.raised
       /\ Len(history_manager.messages) >= 2
       /\ LET n == Len(history_manager.messages)
          IN  /\ history_manager.messages[n - 1].role = "user"
              /\ history_manager.messages[n - 1].content = last.query
              /\ history_manager.messages[n].role = "assistant"
              /\ history_manager.messages[n].content = last.response
              /\ \E i \in 1..Len(history_manager.conversations) :
                    /\ history_manager.conversations[i].username = last.username
                    /\ history_manager.conversations[i].id
                          = history_manager.messages[n].conversation_id
       /\ \A limit \in Limits, conversation_id \in Selected(last.username) :
            LET history == hm_fetch_history(history_manager, conversation_id, limit)
            IN  /\ Len(history) \in 1..limit
                /\ history[Len(history)][1] = last.query
                /\ history[Len(history)][2] = last.response

(* C30: get_conversation_history returns the same messages in the same    *)
(* order from a DatabaseManager with MongoDB and from one without, after  *)
(* the same calls on both.                                                *)
C30_PathsReturnTheSame ==
    (last.op = "get_conversation_history")
    => last.returned["DatabaseManager"] = last.returned["DatabaseManager.memory"]

(* C26: while a session lists an uploaded file the index exists and      *)
(* holds a vector, and an upload that reports success has built the       *)
(* index for its files.                                                   *)
C26_IndexedHasIndex ==
    /\ \A s \in Sessions :
          Indexed(s) => (~ai_manager.faiss_index.isNone /\ IndexSize >= 1)
    /\ (last.op = "upload" /\ last.success) => last.embedding_success

(* Turns: user and assistant messages in pairs with one timestamp. *)
InTurns(messages) ==
    /\ Len(messages) % 2 = 0
    /\ \A i \in 1..Len(messages) :
          IF i % 2 = 1
          THEN messages[i].role = "user"
          ELSE /\ messages[i].role = "assistant"
               /\ messages[i].timestamp = messages[i - 1].timestamp

(* C27: the messages of a session are always turns; a request leaves them *)
(* as they are, or is a chat_message of the session that appends one      *)
(* turn, or is a login, logout, new_conversation or clear_conversation of *)
(* the session that empties them; upload, remove_file and clear_files     *)
(* leave them as they are.                                                *)
C27_HistoryAppendOnly ==
    [][\A s \in Sessions :
         /\ InTurns(session'[s].messages)
         /\ \/ session'[s].messages = session[s].messages
            \/ /\ last'.op = "chat_message" /\ last'.sid = s /\ last'.success
               /\ Len(session'[s].messages) = Len(session[s].messages) + 2
               /\ SubSeq(session'[s].messages, 1, Len(session[s].messages))
                     = session[s].messages
            \/ /\ last'.op \in {"login", "logout", "new_conversation", "clear_conversation"}
               /\ last'.sid = s
               /\ session'[s].messages = <<>>
         /\ last'.op \in {"upload", "remove_file", "clear_files"}
            => session'[s].messages = session[s].messages]_vars

(* A second turn appended behind the first, in a session that lists an    *)
(* uploaded file.                                                         *)
C27_Witness ==
    /\ last.op = "chat_message"
    /\ last.success
    /\ Len(session[last.sid].messages) = 4
    /\ session[last.sid].messages[3].role = "user"
    /\ session[last.sid].messages[4].content = last.response
    /\ session[last.sid].messages[1].timestamp /= session[last.sid].messages[3].timestamp
    /\ Indexed(last.sid)

AuthenticatedOps ==
    {"upload", "chat_message", "remove_file", "clear_files", "new_conversation",
     "clear_conversation"}

(* C28: a request to upload, chat_message, remove_file, clear_files,      *)
(* new_conversation or clear_conversation of a session without a user is  *)
(* answered with the 'Not authenticated' failure, invokes no model, and   *)
(* leaves sessions, index and corpus, saved files and databases as they   *)
(* were.                                                                  *)
C28_UnauthenticatedChangesNothing ==
    [][\A s \in Sessions :
         (requests' /= requests /\ last'.sid = s /\ last'.op \in AuthenticatedOps
          /\ session[s].username = NoUser)
         => /\ ~last'.success
            /\ last'.message = "Not authenticated"
            /\ last'.encode_calls = 0
            /\ last'.search_calls = 0
            /\ last'.generate_calls = 0
            /\ UNCHANGED <<session, ai_manager, uploads, embedding_manager, chat_manager,
                           db_manager, history_manager>>]_vars

(* remove_file refused for a session that has logged out, while the file  *)
(* it uploaded is still saved and indexed.                                *)
C28_Witness ==
    /\ last.op = "remove_file"
    /\ last.message = "Not authenticated"
    /\ session[last.sid].username = NoUser
    /\ uploads /= {}
    /\ IndexSize > 0
    /\ \A s \in Sessions : session[s].username = NoUser

(* C29: after remove_file(f) of a session that still lists another file, *)
(* no query of the session retrieves a chunk of f.                        *)
C29_RemovedFileNotRetrieved ==
    [][\A s \in Sessions :
         (requests' /= requests /\ last'.op = "remove_file" /\ last'.sid = s
          /\ last'.success /\ Indexed(s)')
         => \A query \in Queries :
              \A c \in Range(Retrieved(s, query)') : c.source /= last'.files[1]]_vars

====
